---- MODULE Spec2Model ----
(***************************************************************************)
(* Authoritative tile-grid game server (mystermax): the packet handlers,   *)
(* the movement system, the tick, the input queue and the anti-cheat       *)
(* bookkeeping, as state machines.                                          *)
(*                                                                           *)
(* Spec      the running server: connections, guest logins, 'h' and 'm'    *)
(*           packets, ticks, disconnects, and the wall clock.               *)
(* SpecQueue the InputQueue object driven through its public methods,      *)
(*           together with the server steps that touch it (tick,           *)
(*           disconnect).                                                   *)
(* SpecAC    the AntiCheat object driven through its public methods.       *)
(* SpecLoop  the TickLoop started, stopped and ticking, with updates that  *)
(*           may throw, over a server taking logins and moves.             *)
(* SpecView  two players at every pair of view offsets, turning.           *)
(* SpecDelta the DeltaCompression object driven through its public         *)
(*           methods.                                                       *)
(* SpecMap   the GameMap object driven through its public methods, with    *)
(*           players spawning on it.                                        *)
(* SpecNet   NetworkServer.handleMessage: rate limiter, packet validator   *)
(*           and router in front of the handlers.                           *)
(* SpecCrowd more connections logging in than the map has walkable tiles.  *)
(* SpecLive  the interval timer firing for ever (weak fairness of the      *)
(*           tick), over logins, moves and disconnects.                     *)
(* SpecAuth  guest logins and credential logins that await the account     *)
(*           lookup, interleaved with disconnects.                          *)
(* SpecHist  AntiCheat histories recorded past their capacity.             *)
(* SpecSpeed a player moving over tiles whose types have speed modifiers.  *)
(* SpecLoader MapLoader.getMap for loaded and unloaded ids, with tiles     *)
(*           written to the maps returned, while a player moves.            *)
(* SpecWalk  the crowded server with its first player moving.              *)
(***************************************************************************)
EXTENDS Integers, Sequences, FiniteSets, TLC

VARIABLES
  now,              \* Date.now()
  clients,          \* NetworkServer.clients : sessionId -> client
  nextSessionId,    \* next fresh session id (uuidv4 in handleConnection)
  nextPlayerId,     \* next fresh player id (uuidv4 in AuthService)
  players,          \* GameServer.players : playerId -> Player
  mobs,             \* GameServer.mobs : mobId -> Mob
  maps,             \* MapLoader.maps : mapId -> GameMap
  pendingMoves,     \* MovementSystem.pendingMoves : playerId -> {completeTime}
  playerHistory,    \* AntiCheat.playerHistory : playerId -> history
  previousStates,   \* DeltaCompression.previousStates : playerId -> entities
  playerInventories,\* InventorySystem.playerInventories (its key set)
  queues,           \* InputQueue.queues : playerId -> Array<input>
  inputCount,       \* the input objects created so far (their identity)
  accepted,         \* per player, the inputs enqueue accepted since the last drain or remove
  returned,         \* the inputs some drain has returned
  tickCount,        \* TickLoop.tickCount
  running,          \* TickLoop.running
  timer,            \* TickLoop.timer : the handle setInterval returned, or null
  timers,           \* the interval handles the runtime holds (set, not yet cleared)
  buckets,          \* RateLimiter.buckets : sessionId -> {count, resetTime}
  passedAt,         \* per session, the times of the last packets check let through
  lookups,          \* the sessions whose handleLogin awaits the account lookup
  copies,           \* per tracked observer and entity, what the observer has made of
                    \* the values computeDelta returned for it
  outbox,           \* the messages the last step handed to ws.send
  last              \* the last call made on the program, with its arguments and result

vars == <<now, clients, nextSessionId, nextPlayerId, players, mobs, maps, pendingMoves,
          playerHistory, previousStates, playerInventories, queues, inputCount,
          accepted, returned, tickCount, running, timer, timers, buckets, passedAt,
          lookups, copies, outbox, last>>

loopVars == <<running, timer, timers>>

netVars == <<buckets, passedAt, lookups, copies>>

serverVars == <<clients, nextSessionId, nextPlayerId, players, mobs, maps, pendingMoves,
                previousStates, playerInventories, tickCount, loopVars, netVars>>

queueVars == <<queues, inputCount, accepted, returned>>

-----------------------------------------------------------------------------
(* Bounds of the model *)

\* the generated map is MapWidth x MapHeight (100 x 100 in mapLoader.js)
MapWidth == 4

MapHeight == 4

\* connections accepted over a run
MaxSessions == 2

\* players spawned over a run
MaxPlayers == 2

\* Date.now() when the server starts
StartTime == 1000

\* the clock stops advancing here
MaxTime == 1750

\* ticks fired over a run
MaxTicks == 5

\* new Player: x = 50, y = 50, where the view specification puts its first player
ViewOrigin == 50

\* how far east and south of the first player the second one stands, in the view
\* specification: in the client's view, at its edge, at the edge of twice the view
ViewOffsetsX == {0, 8, 9, 17, 18}

ViewOffsetsY == {0, 6, 7, 13, 14}

\* the clock's steps, in ms
TimeSteps == {600, 650, 750}

-----------------------------------------------------------------------------
(* Program constants *)

\* JavaScript's undefined / null
Undefined == -1

defaultSpeed == 750

viewWidth == 17

viewHeight == 13

maxTeleportDistance == 2

\* speedHackTolerance = 0.15, as a percentage
speedHackTolerancePct == 15

minCurSpeed == 100

snapshotInterval == 5

spawnSearchRadius == 20

BLOCKED_TILES == {325}

Abs(n) == IF n < 0 THEN -n ELSE n

\* the table with east and west exchanged
DIRECTION_VECTORS_mirrored ==
  [dir \in 0 .. 3 |->
     CASE dir = 0 -> [dx |-> 0, dy |-> -1]
       [] dir = 1 -> [dx |-> -1, dy |-> 0]
       [] dir = 2 -> [dx |-> 0, dy |-> 1]
       [] dir = 3 -> [dx |-> 1, dy |-> 0]]

DIRECTION_VECTORS ==
  (0 :> [dx |-> 0, dy |-> -1]) @@ (1 :> [dx |-> 1, dy |-> 0]) @@
  (2 :> [dx |-> 0, dy |-> 1]) @@ (3 :> [dx |-> -1, dy |-> 0])

isValidDirection(dir) == dir \in Int /\ dir >= 0 /\ dir <= 3

manhattanDistance(x1, y1, x2, y2) == Abs(x1 - x2) + Abs(y1 - y2)

getKey(x, y) == 10000 * x + y

-----------------------------------------------------------------------------
(* GameMap and MapLoader *)

\* GameMap.tileIndex
tileIndex(map, x, y) == y * map.width + x

\* GameMap.inBounds
mapInBounds(map, x, y) == x >= 0 /\ x < map.width /\ y >= 0 /\ y < map.height

\* GameMap.getTile
mapGetTile(map, x, y) ==
  IF ~mapInBounds(map, x, y) THEN Undefined ELSE map.tiles[tileIndex(map, x, y)]

\* GameMap.setTile
setTile(map, x, y, spriteId) ==
  IF ~mapInBounds(map, x, y) THEN map
  ELSE [map EXCEPT !.tiles[tileIndex(map, x, y)] = spriteId]

\* MapLoader.loadMap: grass (0) everywhere, a border of walls (325), no wall code,
\* no tile speeds, no objects
loadMap(mapId) ==
  [id |-> mapId, width |-> MapWidth, height |-> MapHeight,
   tiles |-> [i \in 0 .. MapWidth * MapHeight - 1 |->
                IF \/ i % MapWidth = 0 \/ i % MapWidth = MapWidth - 1
                   \/ i \div MapWidth = 0 \/ i \div MapWidth = MapHeight - 1
                THEN 325 ELSE 0],
   wallTile |-> Undefined, tileSpeed |-> << >>, objects |-> << >>,
   blockingObjects |-> {}]

\* MapLoader.getMap that builds the map on every call
MapLoader_getMap_reloads(M, mapId) ==
  [k \in DOMAIN M \cup {mapId} |-> IF k = mapId THEN loadMap(mapId) ELSE M[k]]

\* MapLoader.getMap: this.maps once it has returned; it returns this.maps.get(mapId)
MapLoader_getMap(M, mapId) ==
  IF mapId \in DOMAIN M THEN M
  ELSE [k \in DOMAIN M \cup {mapId} |-> IF k = mapId THEN loadMap(mapId) ELSE M[k]]

\* MapLoader.getMap, for a map that is loaded
getMap(mapId) == maps[mapId]

\* if (!map), for the map getMap(mapId) returns
noMap(mapId) == mapId \notin DOMAIN MapLoader_getMap(maps, mapId)

\* the map every player is on
inBounds(x, y) == mapInBounds(getMap("overworld"), x, y)

getTile(x, y) == mapGetTile(getMap("overworld"), x, y)

wallTile == getMap("overworld").wallTile

blockingObjects == getMap("overworld").blockingObjects

\* map.tileSpeed = {}
tileSpeed == getMap("overworld").tileSpeed

\* isTileWalkable that does not look at the map's wall code
isTileWalkable_noWall(tileId, wall) ==
  IF tileId = Undefined THEN FALSE
  ELSE IF tileId \in BLOCKED_TILES THEN FALSE
  ELSE TRUE

isTileWalkable(tileId, wall) ==
  IF tileId = Undefined THEN FALSE
  ELSE IF tileId \in BLOCKED_TILES THEN FALSE
  ELSE IF wall # Undefined /\ tileId = wall THEN FALSE
  ELSE TRUE

\* GameMap.isWalkable
mapIsWalkable(map, x, y) ==
  IF ~mapInBounds(map, x, y) THEN FALSE
  ELSE IF ~isTileWalkable(mapGetTile(map, x, y), map.wallTile) THEN FALSE
  ELSE IF getKey(x, y) \in map.blockingObjects THEN FALSE
  ELSE TRUE

\* GameMap.addObject
addObject(map, x, y, templateId, isBlocking) ==
  LET key == getKey(x, y)
      old == IF key \in DOMAIN map.objects THEN map.objects[key] ELSE << >>
  IN [map EXCEPT
        !.objects = [k \in DOMAIN map.objects \cup {key} |->
                       IF k = key THEN Append(old, templateId) ELSE map.objects[k]],
        !.blockingObjects = IF isBlocking THEN map.blockingObjects \cup {key}
                            ELSE map.blockingObjects]

\* GameMap.removeObjects
removeObjects(map, x, y) ==
  LET key == getKey(x, y)
  IN [map EXCEPT
        !.objects = [k \in DOMAIN map.objects \ {key} |-> map.objects[k]],
        !.blockingObjects = map.blockingObjects \ {key}]

\* isWalkable that forgets the tile's own code
isWalkable_boundsOnly(x, y) == inBounds(x, y)

\* map.isWalkable(x, y) on the map every player is on
isWalkable(x, y) == mapIsWalkable(getMap("overworld"), x, y)

getTileSpeedModifier(tileId, tileSpeedMap) ==
  IF tileId \in DOMAIN tileSpeedMap THEN tileSpeedMap[tileId] ELSE 0

-----------------------------------------------------------------------------
(* Messages *)

NoPlayer == 0

Msg(to, type, id, x, y, d) ==
  [to |-> to, type |-> type, id |-> id, x |-> x, y |-> y, d |-> d, data |-> {}]

\* NetworkServer.sendToPlayer: the first client whose playerId is the player
sendToPlayer(cl, playerId, type, id, x, y, d) ==
  LET match == {sid \in DOMAIN cl : cl[sid].playerId = playerId}
  IN  IF match = {} THEN {}
      ELSE {Msg(CHOOSE sid \in match : \A o \in match : sid <= o, type, id, x, y, d)}

\* NetworkServer.broadcastToNearby: its recipients
nearbyClients(cl, P, x, y, mapId, excludePlayerId) ==
  {sid \in DOMAIN cl :
     /\ cl[sid].playerId # excludePlayerId
     /\ cl[sid].authenticated
     /\ cl[sid].playerId \in DOMAIN P
     /\ P[cl[sid].playerId].mapId = mapId
     /\ Abs(P[cl[sid].playerId].x - x) <= viewWidth
     /\ Abs(P[cl[sid].playerId].y - y) <= viewHeight}

broadcastToNearby(cl, P, x, y, mapId, type, id, d, excludePlayerId) ==
  {Msg(sid, type, id, x, y, d) : sid \in nearbyClients(cl, P, x, y, mapId, excludePlayerId)}

\* GameServer.broadcastPlayerUpdate: a 'p' packet, nobody excluded
broadcastPlayerUpdate(cl, P, pid) ==
  broadcastToNearby(cl, P, P[pid].x, P[pid].y, P[pid].mapId, "p", pid, P[pid].dir, Undefined)

\* MovementSystem.sendCorrection: a 'pos' packet to the player
sendCorrection(cl, P, pid) ==
  sendToPlayer(cl, pid, "pos", pid, P[pid].x, P[pid].y, Undefined)

-----------------------------------------------------------------------------
(* Movement system *)

\* isTileOccupiedByEntity that counts a player only once its traversal is complete
isTileOccupiedByEntity_settledOnly(P, M, x, y, mapId, excludeId) ==
  \/ \E p \in DOMAIN P :
       /\ p # excludeId /\ P[p].mapId = mapId /\ P[p].x = x /\ P[p].y = y
       /\ ~P[p].isMoving
  \/ \E m \in DOMAIN M :
       m # excludeId /\ M[m].mapId = mapId /\ M[m].x = x /\ M[m].y = y

isTileOccupiedByEntity(P, M, x, y, mapId, excludeId) ==
  \/ \E p \in DOMAIN P :
       p # excludeId /\ P[p].mapId = mapId /\ P[p].x = x /\ P[p].y = y
  \/ \E m \in DOMAIN M :
       m # excludeId /\ M[m].mapId = mapId /\ M[m].x = x /\ M[m].y = y

\* updateCurSpeed without the minimum speed cap
updateCurSpeed_uncapped(speed, tileSpeedMod) == speed + tileSpeedMod

\* Player.updateCurSpeed
updateCurSpeed(speed, tileSpeedMod) ==
  IF speed + tileSpeedMod < minCurSpeed THEN minCurSpeed ELSE speed + tileSpeedMod

\* elapsed < curSpeed * (1 - tolerance)
tooFast(elapsed, curSpeed) ==
  elapsed * 100 < curSpeed * (100 - speedHackTolerancePct)

\* the teleport test with >= for >
tooFar_inclusive(dist) == dist >= maxTeleportDistance

\* dist > config.security.maxTeleportDistance
tooFar(dist) == dist > maxTeleportDistance

\* a set that stores nothing
setPendingMove_lost(PM, playerId, completeTime) == PM

\* this.pendingMoves.set(player.id, {completeTime})
setPendingMove(PM, playerId, completeTime) ==
  [q \in DOMAIN PM \cup {playerId} |->
     IF q = playerId THEN [completeTime |-> completeTime] ELSE PM[q]]

\* a traversal guard that never holds
stillMoving_never(pl) == FALSE

\* if (player.isMoving): the player is mid-traversal
stillMoving(pl) == pl.isMoving

\* a counter that an accepted move leaves alone
countInput_not(pl) == pl.inputSequence

\* player.inputSequence++
countInput(pl) == pl.inputSequence + 1

\* MovementSystem.handleMoveStart: the new players, pendingMoves and the messages sent
handleMoveStart(cl, P, M, PM, t, pid, pkt) ==
  LET pl       == P[pid]
      same     == [players |-> P, pendingMoves |-> PM, out |-> {}]
      corr     == sendCorrection(cl, P, pid)
      mismatch == pkt.x # pl.x \/ pkt.y # pl.y
      dist     == manhattanDistance(pkt.x, pkt.y, pl.x, pl.y)
      pre      == IF mismatch THEN corr ELSE {}
  IN
  IF ~isValidDirection(pkt.d) THEN [same EXCEPT !.out = corr]
  ELSE IF stillMoving(pl) THEN same
  ELSE IF mismatch /\ tooFar(dist) THEN [same EXCEPT !.out = corr]
  ELSE
    LET vec     == DIRECTION_VECTORS[pkt.d]
        targetX == pl.x + vec.dx
        targetY == pl.y + vec.dy
        faced   == [P EXCEPT ![pid].dir = pkt.d]
        faceOnly == [players |-> faced, pendingMoves |-> PM,
                     out |-> pre \cup broadcastPlayerUpdate(cl, faced, pid)]
    IN
    IF noMap(pl.mapId) THEN [same EXCEPT !.out = pre \cup corr]
    ELSE IF ~isWalkable(targetX, targetY) THEN faceOnly
    ELSE IF isTileOccupiedByEntity(P, M, targetX, targetY, pl.mapId, pid) THEN faceOnly
    ELSE IF pl.lastMoveTime > 0 /\ tooFast(t - pl.lastMoveTime, pl.curSpeed)
      THEN [same EXCEPT !.out = pre \cup corr]
    ELSE
      LET mod   == getTileSpeedModifier(getTile(targetX, targetY), tileSpeed)
          cur   == updateCurSpeed(pl.speed, mod)
          moved == [P EXCEPT ![pid] =
                      [pl EXCEPT !.dir = pkt.d, !.fromX = pl.x, !.fromY = pl.y,
                                 !.isMoving = TRUE, !.moveStartTime = t,
                                 !.x = targetX, !.y = targetY, !.lastMoveTime = t,
                                 !.tileSpeedMod = mod, !.curSpeed = cur,
                                 !.inputSequence = countInput(pl)]]
      IN [players |-> moved,
          pendingMoves |-> setPendingMove(PM, pid, t + cur),
          out |-> pre \cup broadcastToNearby(cl, moved, targetX, targetY, pl.mapId,
                                             "move", pid, Undefined, pid)]

\* handleDirectionChange that turns only a player standing still
handleDirectionChange_whenIdle(cl, P, pid, pkt) ==
  IF ~isValidDirection(pkt.d) \/ P[pid].isMoving THEN [players |-> P, out |-> {}]
  ELSE LET faced == [P EXCEPT ![pid].dir = pkt.d]
       IN [players |-> faced,
           out |-> broadcastToNearby(cl, faced, faced[pid].x, faced[pid].y,
                                     faced[pid].mapId, "p", pid, pkt.d, pid)]

\* MovementSystem.handleDirectionChange
handleDirectionChange(cl, P, pid, pkt) ==
  IF ~isValidDirection(pkt.d) THEN [players |-> P, out |-> {}]
  ELSE LET faced == [P EXCEPT ![pid].dir = pkt.d]
       IN [players |-> faced,
           out |-> broadcastToNearby(cl, faced, faced[pid].x, faced[pid].y,
                                     faced[pid].mapId, "p", pid, pkt.d, pid)]

-----------------------------------------------------------------------------
(* Spawning *)

\* new Player(id, name); its (50, 50) is the centre of the 100 x 100 map
newPlayer(sid) ==
  [x |-> MapWidth \div 2, y |-> MapHeight \div 2,
   fromX |-> MapWidth \div 2, fromY |-> MapHeight \div 2,
   dir |-> 2, mapId |-> "overworld", speed |-> defaultSpeed, tileSpeedMod |-> 0,
   curSpeed |-> defaultSpeed, isMoving |-> FALSE, moveStartTime |-> 0,
   lastMoveTime |-> 0, inputSequence |-> 0, sessionId |-> sid]

\* findSpawnPosition that takes the first unoccupied tile, walkable or not
findSpawnPosition_anyTile(P, M, pid, pl) ==
  LET centerX == MapWidth \div 2
      centerY == MapHeight \div 2
      ring(x, y) == IF Abs(x - centerX) > Abs(y - centerY)
                    THEN Abs(x - centerX) ELSE Abs(y - centerY)
      free == {c \in (0 .. MapWidth - 1) \X (0 .. MapHeight - 1) :
                  /\ ring(c[1], c[2]) < spawnSearchRadius
                  /\ ~isTileOccupiedByEntity(P, M, c[1], c[2], pl.mapId, pid)}
      before(a, b) ==
        \/ ring(a[1], a[2]) < ring(b[1], b[2])
        \/ ring(a[1], a[2]) = ring(b[1], b[2]) /\ a[1] < b[1]
        \/ ring(a[1], a[2]) = ring(b[1], b[2]) /\ a[1] = b[1] /\ a[2] <= b[2]
  IN  IF free = {} THEN pl
      ELSE LET c == CHOOSE a \in free : \A b \in free : before(a, b)
           IN [pl EXCEPT !.x = c[1], !.y = c[2], !.fromX = c[1], !.fromY = c[2]]

\* GameServer.findSpawnPosition: the first free walkable tile, scanning squares
\* of growing radius around the centre, dx ascending, then dy ascending
findSpawnPosition(P, M, pid, pl) ==
  LET centerX == MapWidth \div 2
      centerY == MapHeight \div 2
      ring(x, y) == IF Abs(x - centerX) > Abs(y - centerY)
                    THEN Abs(x - centerX) ELSE Abs(y - centerY)
      free == {c \in (0 .. MapWidth - 1) \X (0 .. MapHeight - 1) :
                  /\ ring(c[1], c[2]) < spawnSearchRadius
                  /\ isWalkable(c[1], c[2])
                  /\ ~isTileOccupiedByEntity(P, M, c[1], c[2], pl.mapId, pid)}
      before(a, b) ==
        \/ ring(a[1], a[2]) < ring(b[1], b[2])
        \/ ring(a[1], a[2]) = ring(b[1], b[2]) /\ a[1] < b[1]
        \/ ring(a[1], a[2]) = ring(b[1], b[2]) /\ a[1] = b[1] /\ a[2] <= b[2]
  IN  IF free = {} THEN pl
      ELSE LET c == CHOOSE a \in free : \A b \in free : before(a, b)
           IN [pl EXCEPT !.x = c[1], !.y = c[2], !.fromX = c[1], !.fromY = c[2]]

newHistory == [positions |-> << >>, violations |-> 0, lastMoveTime |-> 0]

\* a call: the session and player it is about, its arguments (x, y, d), the boolean it
\* returned (ok) and the array it returned (items)
Call(op, sid, pid, x, y, d) ==
  [op |-> op, sid |-> sid, pid |-> pid, x |-> x, y |-> y, d |-> d,
   ok |-> FALSE, items |-> << >>]

NoCall == Call("none", 0, NoPlayer, 0, 0, Undefined)

-----------------------------------------------------------------------------
(* The server's steps *)

\* the state once GameServer.start() has returned
Init ==
  /\ now = StartTime
  /\ clients = << >>
  /\ nextSessionId = 1
  /\ nextPlayerId = 1
  /\ players = << >>
  /\ mobs = << >>
  /\ maps = [mapId \in {"overworld"} |-> loadMap(mapId)]
  /\ pendingMoves = << >>
  /\ playerHistory = << >>
  /\ previousStates = << >>
  /\ playerInventories = {}
  /\ queues = << >>
  /\ inputCount = 0
  /\ accepted = << >>
  /\ returned = {}
  /\ tickCount = 0
  /\ running = TRUE
  /\ timer = 1
  /\ timers = {1}
  /\ buckets = << >>
  /\ passedAt = << >>
  /\ lookups = {}
  /\ copies = << >>
  /\ outbox = {}
  /\ last = NoCall

\* the wall clock
AdvanceTime(dt) ==
  /\ now + dt <= MaxTime
  /\ now' = now + dt
  /\ UNCHANGED <<serverVars, playerHistory, queueVars, outbox, last>>

\* NetworkServer.handleConnection
NetworkServer_handleConnection ==
  /\ clients' = [s \in DOMAIN clients \cup {nextSessionId} |->
                   IF s = nextSessionId
                   THEN [playerId |-> NoPlayer, authenticated |-> FALSE]
                   ELSE clients[s]]
  /\ nextSessionId' = nextSessionId + 1
  /\ outbox' = {}
  /\ last' = Call("connect", nextSessionId, NoPlayer, 0, 0, Undefined)
  /\ UNCHANGED <<now, nextPlayerId, players, mobs, pendingMoves, playerHistory,
                 previousStates, playerInventories, queueVars, tickCount>>
  /\ UNCHANGED <<loopVars, maps, netVars>>

\* a connection, of the MaxSessions a run opens
Connect ==
  /\ nextSessionId <= MaxSessions
  /\ NetworkServer_handleConnection

\* AuthService: client.authenticated = true; client.playerId = playerId, on the
\* client object the handler holds, which handleDisconnect may have taken out of
\* NetworkServer.clients by now
authenticate(cl, sid, playerId) ==
  [s \in DOMAIN cl |->
     IF s = sid THEN [playerId |-> playerId, authenticated |-> TRUE] ELSE cl[s]]

\* GameServer.spawnPlayer, for the client of session sid and a fresh player id,
\* after AuthService has marked the client; op is the packet that led to it
spawnPlayer(sid, op) ==
  /\ LET pid == nextPlayerId
         cl  == authenticate(clients, sid, pid)
         pl  == findSpawnPosition(players, mobs, pid, newPlayer(sid))
         P   == [q \in DOMAIN players \cup {pid} |-> IF q = pid THEN pl ELSE players[q]]
     IN /\ clients' = cl
        /\ players' = P
        /\ playerHistory' = [q \in DOMAIN playerHistory \cup {pid} |->
                               IF q = pid THEN newHistory ELSE playerHistory[q]]
        /\ previousStates' = [q \in DOMAIN previousStates \cup {pid} |->
                               IF q = pid THEN << >> ELSE previousStates[q]]
        /\ playerInventories' = playerInventories \cup {pid}
        /\ outbox' = sendToPlayer(cl, pid, "mt", pid, 0, 0, Undefined)
                     \cup sendToPlayer(cl, pid, "plr_tpl", pid, 0, 0, Undefined)
                     \cup sendToPlayer(cl, pid, "map", pid, pl.x, pl.y, Undefined)
                     \cup sendToPlayer(cl, pid, "pos", pid, pl.x, pl.y, Undefined)
                     \cup sendToPlayer(cl, pid, "game", pid, 0, 0, Undefined)
                     \cup sendToPlayer(cl, pid, "accepted", pid, 0, 0, Undefined)
                     \cup broadcastPlayerUpdate(cl, P, pid)
        /\ last' = Call(op, sid, pid, 0, 0, Undefined)
  /\ nextPlayerId' = nextPlayerId + 1
  /\ UNCHANGED <<now, nextSessionId, mobs, pendingMoves, queueVars, tickCount>>
  /\ UNCHANGED <<loopVars, maps>>

\* GameServer.handleGuestLogin: AuthService.handleGuestLogin, then spawnPlayer
GameServer_handleGuestLogin(sid) ==
  /\ sid \in DOMAIN clients
  /\ spawnPlayer(sid, "guest")

\* a 'guest' packet routed to its handler, of the MaxPlayers logins of a run
GuestLogin(sid) ==
  /\ nextPlayerId <= MaxPlayers
  /\ GameServer_handleGuestLogin(sid)
  /\ UNCHANGED netVars

\* the 'h' packets PacketValidator lets through: d may be missing
HPackets == [x : {1, MapWidth - 1}, y : {1}, d : (0 .. 3) \cup {Undefined}]

\* the 'm' packets PacketValidator lets through
MPackets == [x : {MapWidth \div 2}, y : {MapHeight \div 2}, d : {3}]

\* the 'm' packets of the view specification: every facing
ViewPackets == [x : {ViewOrigin}, y : {ViewOrigin}, d : 0 .. 3]

\* GameServer.handleMoveStart, on an 'h' packet of session sid
GameServer_handleMoveStart(sid, pkt) ==
  /\ sid \in DOMAIN clients
  /\ clients[sid].playerId \in DOMAIN players
  /\ LET pid == clients[sid].playerId
         r   == handleMoveStart(clients, players, mobs, pendingMoves, now, pid, pkt)
     IN /\ players' = r.players
        /\ pendingMoves' = r.pendingMoves
        /\ outbox' = r.out
        /\ last' = Call("h", sid, pid, pkt.x, pkt.y, pkt.d)
  /\ UNCHANGED <<now, clients, nextSessionId, nextPlayerId, mobs, playerHistory,
                 previousStates, playerInventories, queueVars, tickCount>>
  /\ UNCHANGED <<loopVars, maps>>

\* an 'h' packet routed to its handler
MoveStart(sid, pkt) ==
  /\ GameServer_handleMoveStart(sid, pkt)
  /\ UNCHANGED netVars

\* GameServer.handleDirectionChange, on an 'm' packet of session sid
GameServer_handleDirectionChange(sid, pkt) ==
  /\ sid \in DOMAIN clients
  /\ clients[sid].playerId \in DOMAIN players
  /\ LET pid == clients[sid].playerId
         r   == handleDirectionChange(clients, players, pid, pkt)
     IN /\ players' = r.players
        /\ outbox' = r.out
        /\ last' = Call("m", sid, pid, pkt.x, pkt.y, pkt.d)
  /\ UNCHANGED <<now, clients, nextSessionId, nextPlayerId, mobs, pendingMoves,
                 playerHistory, previousStates, playerInventories, queueVars, tickCount>>
  /\ UNCHANGED <<loopVars, maps>>

\* an 'm' packet routed to its handler
DirectionChange(sid, pkt) ==
  /\ GameServer_handleDirectionChange(sid, pkt)
  /\ UNCHANGED netVars

\* a completion that leaves the player marked as moving
finishMove_stillMoving(player) ==
  [player EXCEPT !.fromX = player.x, !.fromY = player.y]

\* player.isMoving = false; player.fromX = player.x; player.fromY = player.y
finishMove(player) ==
  [player EXCEPT !.isMoving = FALSE, !.fromX = player.x, !.fromY = player.y]

\* a completion test that every pending move passes
moveComplete_atOnce(t, move) == TRUE

\* now >= move.completeTime
moveComplete(t, move) == t >= move.completeTime

\* update that ends the traversal and leaves fromX, fromY as they were
movementUpdate_keepsFrom(P, PM, t) ==
  LET done == {p \in DOMAIN PM : t >= PM[p].completeTime}
  IN [players |-> [p \in DOMAIN P |->
                     IF p \in done THEN [P[p] EXCEPT !.isMoving = FALSE] ELSE P[p]],
      pendingMoves |-> [p \in DOMAIN PM \ done |-> PM[p]]]

\* MovementSystem.update: finish the moves whose travel time has passed
movementUpdate(P, PM, t) ==
  LET done == {p \in DOMAIN PM : moveComplete(t, PM[p])}
  IN [players |-> [p \in DOMAIN P |-> IF p \in done THEN finishMove(P[p]) ELSE P[p]],
      pendingMoves |-> [p \in DOMAIN PM \ done |-> PM[p]]]

\* StateSnapshot.getNearbyPlayers
getNearbyPlayers(P, pid) ==
  {o \in DOMAIN P :
     /\ o # pid
     /\ P[o].mapId = P[pid].mapId
     /\ Abs(P[o].x - P[pid].x) <= viewWidth
     /\ Abs(P[o].y - P[pid].y) <= viewHeight}

\* StateSnapshot.sendPlayerSnapshots: one 'pl' packet per player that has neighbours
sendPlayerSnapshots(cl, P) ==
  UNION {
    IF getNearbyPlayers(P, pid) = {} THEN {}
    ELSE {[m EXCEPT !.data = {[id |-> o, x |-> P[o].x, y |-> P[o].y, d |-> P[o].dir]
                               : o \in getNearbyPlayers(P, pid)}]
          : m \in sendToPlayer(cl, pid, "pl", pid, 0, 0, Undefined)}
    : pid \in DOMAIN P}

\* TickLoop.tick: GameServer.update under the next tick count
Tick ==
  /\ timers # {}
  /\ tickCount < MaxTicks
  /\ tickCount' = tickCount + 1
  /\ LET r == movementUpdate(players, pendingMoves, now)
     IN /\ players' = r.players
        /\ pendingMoves' = r.pendingMoves
        /\ outbox' = IF (tickCount + 1) % snapshotInterval = 0
                     THEN sendPlayerSnapshots(clients, r.players) ELSE {}
  /\ last' = Call("tick", 0, NoPlayer, 0, 0, Undefined)
  /\ UNCHANGED <<now, clients, nextSessionId, nextPlayerId, mobs, playerHistory,
                 previousStates, playerInventories, queueVars>>
  /\ UNCHANGED <<loopVars, maps, netVars>>

\* what is left of a map once key k is deleted
Without(f, k) == [q \in DOMAIN f \ {k} |-> f[q]]

\* removePlayer that leaves the pending move where it is
MovementSystem_removePlayer_noop(PM, playerId) == PM

\* MovementSystem.removePlayer: this.pendingMoves.delete(playerId)
MovementSystem_removePlayer(PM, playerId) == Without(PM, playerId)

\* RateLimiter.remove: this.buckets.delete(sessionId)
RateLimiter_remove(B, sessionId) == Without(B, sessionId)

\* NetworkServer.handleDisconnect, with GameServer.handlePlayerDisconnect
Disconnect(sid) ==
  /\ sid \in DOMAIN clients
  /\ LET pid == clients[sid].playerId
     IN IF pid # NoPlayer /\ pid \in DOMAIN players
        THEN /\ players' = Without(players, pid)
             /\ pendingMoves' = MovementSystem_removePlayer(pendingMoves, pid)
             /\ playerHistory' = Without(playerHistory, pid)
             /\ previousStates' = Without(previousStates, pid)
             /\ playerInventories' = playerInventories \ {pid}
             /\ queues' = Without(queues, pid)
             /\ accepted' = Without(accepted, pid)
        ELSE UNCHANGED <<players, pendingMoves, playerHistory, previousStates,
                         playerInventories, queues, accepted>>
  /\ clients' = Without(clients, sid)
  /\ outbox' = {}
  /\ buckets' = RateLimiter_remove(buckets, sid)
  /\ passedAt' = Without(passedAt, sid)
  /\ UNCHANGED <<lookups, copies>>
  /\ last' = Call("close", sid, clients[sid].playerId, 0, 0, Undefined)
  /\ UNCHANGED <<now, nextSessionId, nextPlayerId, mobs, tickCount, inputCount, returned>>
  /\ UNCHANGED <<loopVars, maps>>

-----------------------------------------------------------------------------
(* NetworkServer.handleMessage: RateLimiter, PacketValidator, PacketRouter *)

\* config.security.packetRateLimit: PACKET_RATE_LIMIT, 60 when it is not set
maxPerSecond == 2

\* the length of a bucket's window, in ms
windowMs == 1000

\* packets counted in one bucket over a run
MaxCount == 3

\* the wall clock of the network specification runs to NetMaxTime
NetMaxTime == 2000

NetSteps == {400, 600}

\* RateLimiter.check: the buckets after the call, and its result
RateLimiter_check(B, t, sessionId) ==
  LET fresh  == sessionId \notin DOMAIN B \/ t >= B[sessionId].resetTime
      bucket == IF fresh THEN [count |-> 0, resetTime |-> t + windowMs] ELSE B[sessionId]
      after  == [bucket EXCEPT !.count = @ + 1]
  IN [buckets |-> [s \in DOMAIN B \cup {sessionId} |->
                     IF s = sessionId THEN after ELSE B[s]],
      ok |-> after.count <= maxPerSecond]

\* Number.isFinite of a packet field (Undefined: the field is missing)
isFinite(v) == v # Undefined

\* PacketValidator.validate
validate(packet) ==
  CASE packet.type = "h" ->
         /\ isFinite(packet.x) /\ isFinite(packet.y)
         /\ (packet.d = Undefined \/ (packet.d >= 0 /\ packet.d <= 3))
    [] packet.type = "m" ->
         /\ isFinite(packet.x) /\ isFinite(packet.y)
         /\ packet.d # Undefined /\ packet.d >= 0 /\ packet.d <= 3
    [] OTHER -> TRUE

\* the packets a client sends: a guest login, move starts and facing changes
\* from the spawn tile with a valid, a missing and an out-of-range direction
NetPackets ==
  {[type |-> "guest", x |-> 0, y |-> 0, d |-> Undefined]}
  \cup [type : {"h"}, x : {MapWidth \div 2}, y : {MapHeight \div 2}, d : {3, Undefined, 7}]
  \cup [type : {"m"}, x : {MapWidth \div 2}, y : {MapHeight \div 2}, d : {0, Undefined, 7}]

\* the times of the last maxPerSecond + 1 packets of a session that passed check
logPass(L, sessionId, t) ==
  LET old == IF sessionId \in DOMAIN L THEN L[sessionId] ELSE << >>
      all == Append(old, t)
      cut == IF Len(all) > maxPerSecond + 1 THEN Tail(all) ELSE all
  IN [s \in DOMAIN L \cup {sessionId} |-> IF s = sessionId THEN cut ELSE L[s]]

\* a packet that handleMessage or the handler returns on: nothing but the call
Dropped(op, sid, pkt) ==
  /\ outbox' = {}
  /\ last' = [Call(op, sid, clients[sid].playerId, pkt.x, pkt.y, pkt.d)
                EXCEPT !.items = <<pkt.type>>]
  /\ UNCHANGED <<now, clients, nextSessionId, nextPlayerId, players, mobs, pendingMoves,
                 playerHistory, previousStates, playerInventories, queueVars, tickCount>>
  /\ UNCHANGED <<loopVars, maps>>

\* PacketRouter.route
route(sid, packet) ==
  CASE packet.type = "guest" -> nextPlayerId <= MaxPlayers /\ GameServer_handleGuestLogin(sid)
    [] packet.type = "h" ->
         IF clients[sid].playerId \in DOMAIN players
         THEN GameServer_handleMoveStart(sid, packet)
         ELSE Dropped("noPlayer", sid, packet)
    [] packet.type = "m" ->
         IF clients[sid].playerId \in DOMAIN players
         THEN GameServer_handleDirectionChange(sid, packet)
         ELSE Dropped("noPlayer", sid, packet)
    [] OTHER -> Dropped("unhandled", sid, packet)

\* NetworkServer.handleMessage
Message(sid, packet) ==
  /\ sid \in DOMAIN clients
  /\ IF sid \in DOMAIN buckets /\ now < buckets[sid].resetTime
     THEN buckets[sid].count < MaxCount ELSE TRUE
  /\ UNCHANGED <<lookups, copies>>
  /\ LET r == RateLimiter_check(buckets, now, sid)
     IN /\ buckets' = r.buckets
        /\ IF ~r.ok
           THEN /\ Dropped("limited", sid, packet)
                /\ UNCHANGED passedAt
           ELSE /\ passedAt' = logPass(passedAt, sid, now)
                /\ IF validate(packet)
                   THEN route(sid, packet)
                   ELSE Dropped("invalid", sid, packet)

\* the wall clock of the network specification
NetAdvanceTime(dt) ==
  /\ now + dt <= NetMaxTime
  /\ now' = now + dt
  /\ UNCHANGED <<serverVars, playerHistory, queueVars, outbox, last>>

-----------------------------------------------------------------------------
(* InputQueue *)

\* config.security.maxInputBuffer: MAX_INPUT_BUFFER, 32 when it is not set
maxBufferSize == 2

\* input objects created over a run
MaxInputs == 3

\* the buffer test with > for >=
bufferFull_offByOne(queue) == Len(queue) > maxBufferSize

\* queue.length >= this.maxBufferSize
bufferFull(queue) == Len(queue) >= maxBufferSize

\* InputQueue.enqueue: the new queues and the boolean returned
enqueue(Q, t, playerId, input) ==
  LET Q1 == [q \in DOMAIN Q \cup {playerId} |-> IF q \in DOMAIN Q THEN Q[q] ELSE << >>]
  IN  IF bufferFull(Q1[playerId]) THEN [queues |-> Q1, ret |-> FALSE]
      ELSE [queues |-> [Q1 EXCEPT ![playerId] =
                          Append(Q1[playerId], [input EXCEPT !.serverTime = t])],
            ret |-> TRUE]

\* drain that copies the queue and forgets to empty it
drain_keepsQueue(Q, playerId) ==
  IF playerId \notin DOMAIN Q THEN [queues |-> Q, ret |-> << >>]
  ELSE [queues |-> Q, ret |-> Q[playerId]]

\* InputQueue.drain: the new queues and the array returned
drain(Q, playerId) ==
  IF playerId \notin DOMAIN Q THEN [queues |-> Q, ret |-> << >>]
  ELSE IF Len(Q[playerId]) = 0 THEN [queues |-> Q, ret |-> << >>]
  ELSE [queues |-> [Q EXCEPT ![playerId] = << >>], ret |-> Q[playerId]]

\* InputQueue.remove
remove(Q, playerId) == Without(Q, playerId)

\* InputQueue.size
size(Q, playerId) == IF playerId \in DOMAIN Q THEN Len(Q[playerId]) ELSE 0

QueueCall(op, playerId, ok, items) ==
  [Call(op, 0, playerId, 0, 0, Undefined) EXCEPT !.ok = ok, !.items = items]

Enqueue(playerId) ==
  /\ inputCount < MaxInputs
  /\ LET input == [n |-> inputCount + 1, serverTime |-> 0]
         r     == enqueue(queues, now, playerId, input)
         old   == IF playerId \in DOMAIN accepted THEN accepted[playerId] ELSE << >>
     IN /\ queues' = r.queues
        /\ accepted' = [q \in DOMAIN accepted \cup {playerId} |->
                          IF q # playerId THEN accepted[q]
                          ELSE IF r.ret THEN Append(old, input.n) ELSE old]
        /\ last' = QueueCall("enqueue", playerId, r.ret, <<input.n>>)
  /\ inputCount' = inputCount + 1
  /\ outbox' = {}
  /\ UNCHANGED <<now, serverVars, playerHistory, returned>>

Drain(playerId) ==
  /\ LET r == drain(queues, playerId)
     IN /\ queues' = r.queues
        /\ returned' = returned \cup {r.ret[i].n : i \in 1 .. Len(r.ret)}
        /\ last' = QueueCall("drain", playerId, FALSE, [i \in 1 .. Len(r.ret) |-> r.ret[i].n])
  /\ accepted' = [q \in DOMAIN accepted |-> IF q = playerId THEN << >> ELSE accepted[q]]
  /\ outbox' = {}
  /\ UNCHANGED <<now, serverVars, playerHistory, inputCount>>

Remove(playerId) ==
  /\ queues' = remove(queues, playerId)
  /\ accepted' = Without(accepted, playerId)
  /\ last' = QueueCall("remove", playerId, FALSE, << >>)
  /\ outbox' = {}
  /\ UNCHANGED <<now, serverVars, playerHistory, inputCount, returned>>

-----------------------------------------------------------------------------
(* AntiCheat *)

maxViolations == 10

historySize == 20

\* participants AntiCheat.initPlayer is called for; one more id stays untracked
MaxTracked == 1

\* detect calls stop once a counter is here
ViolationCap == 11

\* recordMove calls stop once a history is this long
MaxSamples == 2
\* the recordings of one history in SpecHist: two more than it keeps
MaxRecorded == 22

\* AntiCheat.initPlayer
initPlayer(H, playerId) ==
  [q \in DOMAIN H \cup {playerId} |-> IF q = playerId THEN newHistory ELSE H[q]]

\* recordMove with pop() for shift(): a full history drops the sample just pushed
recordMove_dropsNewest(H, t, playerId, x, y) ==
  IF playerId \notin DOMAIN H THEN H
  ELSE LET pushed == Append(H[playerId].positions, [x |-> x, y |-> y, time |-> t])
           kept   == IF Len(pushed) > historySize
                     THEN SubSeq(pushed, 1, historySize) ELSE pushed
       IN [H EXCEPT ![playerId] = [H[playerId] EXCEPT !.positions = kept,
                                                     !.lastMoveTime = t]]

\* AntiCheat.recordMove
recordMove(H, t, playerId, x, y) ==
  IF playerId \notin DOMAIN H THEN H
  ELSE LET pushed == Append(H[playerId].positions, [x |-> x, y |-> y, time |-> t])
           kept   == IF Len(pushed) > historySize THEN Tail(pushed) ELSE pushed
       IN [H EXCEPT ![playerId] = [H[playerId] EXCEPT !.positions = kept,
                                                     !.lastMoveTime = t]]

\* AntiCheat.detectSpeedHack: the new histories and the boolean returned
detectSpeedHack(H, playerId, expectedSpeed) ==
  IF playerId \notin DOMAIN H THEN [history |-> H, ret |-> FALSE]
  ELSE IF Len(H[playerId].positions) < 2 THEN [history |-> H, ret |-> FALSE]
  ELSE LET pos  == H[playerId].positions
           elapsed == pos[Len(pos)].time - pos[Len(pos) - 1].time
       IN IF tooFast(elapsed, expectedSpeed)
          THEN [history |-> [H EXCEPT ![playerId].violations = H[playerId].violations + 1],
                ret |-> TRUE]
          ELSE [history |-> H, ret |-> FALSE]

\* detectTeleport with the larger of the two offsets for their sum
detectTeleport_chebyshev(H, playerId, claimedX, claimedY, serverX, serverY) ==
  IF tooFar(IF Abs(claimedX - serverX) > Abs(claimedY - serverY)
            THEN Abs(claimedX - serverX) ELSE Abs(claimedY - serverY))
  THEN [history |-> IF playerId \in DOMAIN H
                    THEN [H EXCEPT ![playerId].violations = H[playerId].violations + 1]
                    ELSE H,
        ret |-> TRUE]
  ELSE [history |-> H, ret |-> FALSE]

\* AntiCheat.detectTeleport: the new histories and the boolean returned
detectTeleport(H, playerId, claimedX, claimedY, serverX, serverY) ==
  IF tooFar(manhattanDistance(claimedX, claimedY, serverX, serverY))
  THEN [history |-> IF playerId \in DOMAIN H
                    THEN [H EXCEPT ![playerId].violations = H[playerId].violations + 1]
                    ELSE H,
        ret |-> TRUE]
  ELSE [history |-> H, ret |-> FALSE]

\* shouldKick with > for >=
shouldKick_exclusive(H, playerId) ==
  playerId \in DOMAIN H /\ H[playerId].violations > maxViolations

\* AntiCheat.shouldKick: history && history.violations >= this.maxViolations
shouldKick(H, playerId) ==
  playerId \in DOMAIN H /\ H[playerId].violations >= maxViolations

\* AntiCheat.removePlayer
removePlayer(H, playerId) == Without(H, playerId)

ACIds == 1 .. MaxTracked + 1

ACCall(op, playerId, x, y, ok) ==
  [Call(op, 0, playerId, x, y, Undefined) EXCEPT !.ok = ok]

ACUnchanged == UNCHANGED <<now, serverVars, queueVars, outbox>>

ACInitPlayer(playerId) ==
  /\ playerId <= MaxTracked
  /\ playerHistory' = initPlayer(playerHistory, playerId)
  /\ last' = ACCall("initPlayer", playerId, 0, 0, FALSE)
  /\ ACUnchanged

ACRecordMove(playerId, x, y) ==
  /\ playerId \in DOMAIN playerHistory => Len(playerHistory[playerId].positions) < MaxSamples
  /\ playerHistory' = recordMove(playerHistory, now, playerId, x, y)
  /\ last' = ACCall("recordMove", playerId, x, y, FALSE)
  /\ ACUnchanged

ACDetectSpeedHack(playerId, expectedSpeed) ==
  /\ playerId \in DOMAIN playerHistory => playerHistory[playerId].violations < ViolationCap
  /\ LET r == detectSpeedHack(playerHistory, playerId, expectedSpeed)
     IN /\ playerHistory' = r.history
        /\ last' = ACCall("detectSpeedHack", playerId, 0, 0, r.ret)
  /\ ACUnchanged

ACDetectTeleport(playerId, claimedX, claimedY, serverX, serverY) ==
  /\ playerId \in DOMAIN playerHistory => playerHistory[playerId].violations < ViolationCap
  /\ LET r == detectTeleport(playerHistory, playerId, claimedX, claimedY, serverX, serverY)
     IN /\ playerHistory' = r.history
        /\ last' = ACCall("detectTeleport", playerId, claimedX - serverX, claimedY - serverY,
                          r.ret)
  /\ ACUnchanged

ACShouldKick(playerId) ==
  /\ last' = ACCall("shouldKick", playerId, 0, 0, shouldKick(playerHistory, playerId))
  /\ UNCHANGED playerHistory
  /\ ACUnchanged

ACRemovePlayer(playerId) ==
  /\ playerHistory' = removePlayer(playerHistory, playerId)
  /\ last' = ACCall("removePlayer", playerId, 0, 0, FALSE)
  /\ ACUnchanged

-----------------------------------------------------------------------------
(* TickLoop *)

\* this.timer = null
NoTimer == 0

\* the TickLoop object and the runtime's intervals, as one value
Loop == [running |-> running, timer |-> timer, timers |-> timers]

\* setInterval: a handle the runtime does not hold yet
newHandle(held) == CHOOSE h \in 1 .. Cardinality(held) + 1 : h \notin held

\* start without the test of this.running
start_unguarded(loop) ==
  LET h == newHandle(loop.timers)
  IN [running |-> TRUE, timer |-> h, timers |-> loop.timers \cup {h}]

\* TickLoop.start
start(loop) ==
  IF loop.running THEN loop
  ELSE LET h == newHandle(loop.timers)
       IN [running |-> TRUE, timer |-> h, timers |-> loop.timers \cup {h}]

\* TickLoop.stop
stop(loop) ==
  IF ~loop.running THEN loop
  ELSE [running |-> FALSE, timer |-> NoTimer,
        timers |-> IF loop.timer # NoTimer THEN loop.timers \ {loop.timer}
                   ELSE loop.timers]

\* a catch block that gives up and stops the loop
catchError_stops(loop) == stop(loop)

\* the catch block of TickLoop.tick: logger.error, and nothing else
catchError(loop) == loop

\* the points of GameServer.update at which an error may be thrown: before
\* movementSystem.update has changed anything, or after it has returned
ThrowStages == {0, 1}

SetLoop(loop) ==
  /\ running' = loop.running
  /\ timer' = loop.timer
  /\ timers' = loop.timers

Start ==
  /\ SetLoop(start(Loop))
  /\ outbox' = {}
  /\ last' = [Call("start", 0, NoPlayer, 0, 0, Undefined) EXCEPT !.ok = running]
  /\ UNCHANGED <<now, clients, nextSessionId, nextPlayerId, players, mobs, netVars, maps,
                 pendingMoves, playerHistory, previousStates, playerInventories,
                 queueVars, tickCount>>

Stop ==
  /\ SetLoop(stop(Loop))
  /\ outbox' = {}
  /\ last' = [Call("stop", 0, NoPlayer, 0, 0, Undefined) EXCEPT !.ok = running]
  /\ UNCHANGED <<now, clients, nextSessionId, nextPlayerId, players, mobs, netVars, maps,
                 pendingMoves, playerHistory, previousStates, playerInventories,
                 queueVars, tickCount>>

\* TickLoop.tick when GameServer.update throws at the given stage
TickThrows(stage) ==
  /\ timers # {}
  /\ tickCount < MaxTicks
  /\ tickCount' = tickCount + 1
  /\ LET r == IF stage >= 1 THEN movementUpdate(players, pendingMoves, now)
              ELSE [players |-> players, pendingMoves |-> pendingMoves]
     IN /\ players' = r.players
        /\ pendingMoves' = r.pendingMoves
  /\ SetLoop(catchError(Loop))
  /\ outbox' = {}
  /\ last' = Call("tickThrow", 0, NoPlayer, stage, 0, Undefined)
  /\ UNCHANGED <<now, clients, nextSessionId, nextPlayerId, mobs, netVars, maps, playerHistory,
                 previousStates, playerInventories, queueVars>>

\* the 'h' packets of the tick loop's specification: a step east or west from
\* the spawn tile
LoopPackets == [x : {MapWidth \div 2}, y : {MapHeight \div 2}, d : {1, 3}]

-----------------------------------------------------------------------------
(* DeltaCompression *)

\* the observers the delta specification calls with; only 1 .. MaxTracked are tracked
DeltaIds == 1 .. MaxTracked + 1

\* the entities observed
DeltaEntities == 1 .. 2

\* the states of entity e handed to computeDelta: flat packets carrying the
\* entity's type and id, with or without the optional field d
DeltaStates(e) ==
  {[type |-> "p", id |-> e, x |-> x] : x \in 1 .. 2}
  \cup {[type |-> "p", id |-> e, x |-> x, d |-> d] : x \in 1 .. 2, d \in 0 .. 1}

\* DeltaCompression.initPlayer
deltaInitPlayer(PS, playerId) ==
  [q \in DOMAIN PS \cup {playerId} |-> IF q = playerId THEN << >> ELSE PS[q]]

\* what entities.set(entityId, {...currentState}) leaves in previousStates
deltaStore(PS, playerId, entityId, currentState) ==
  [PS EXCEPT ![playerId] =
     [e \in DOMAIN PS[playerId] \cup {entityId} |->
        IF e = entityId THEN currentState ELSE PS[playerId][e]]]

\* computeDelta that answers a change with the whole current state
computeDelta_full(PS, playerId, entityId, currentState) ==
  IF playerId \notin DOMAIN PS
  THEN [previousStates |-> PS, null |-> FALSE, ret |-> currentState]
  ELSE IF entityId \notin DOMAIN PS[playerId] \/ PS[playerId][entityId] # currentState
  THEN [previousStates |-> deltaStore(PS, playerId, entityId, currentState),
        null |-> FALSE, ret |-> currentState]
  ELSE [previousStates |-> PS, null |-> TRUE, ret |-> << >>]

\* DeltaCompression.computeDelta: the new previousStates and the value returned
computeDelta(PS, playerId, entityId, currentState) ==
  IF playerId \notin DOMAIN PS
  THEN [previousStates |-> PS, null |-> FALSE, ret |-> currentState]
  ELSE IF entityId \notin DOMAIN PS[playerId]
  THEN [previousStates |-> deltaStore(PS, playerId, entityId, currentState),
        null |-> FALSE, ret |-> currentState]
  ELSE
    LET previousEntity == PS[playerId][entityId]
        changed == {key \in DOMAIN currentState :
                      \/ key \notin DOMAIN previousEntity
                      \/ previousEntity[key] # currentState[key]}
    IN IF changed # {}
       THEN [previousStates |-> deltaStore(PS, playerId, entityId, currentState),
             null |-> FALSE,
             ret |-> [key \in changed \cup {"id", "type"} |->
                        IF key = "id" THEN entityId ELSE currentState[key]]]
       ELSE [previousStates |-> PS, null |-> TRUE, ret |-> << >>]

\* removePlayer that leaves the observer's snapshots in place
deltaRemovePlayer_keeps(PS, playerId) == PS

\* DeltaCompression.removePlayer
deltaRemovePlayer(PS, playerId) == Without(PS, playerId)

DeltaUnchanged ==
  UNCHANGED <<now, clients, nextSessionId, nextPlayerId, players, mobs, maps,
              buckets, passedAt, lookups,
              pendingMoves, playerHistory, playerInventories, queueVars, tickCount,
              loopVars, outbox>>

\* Object.assign(copy, packet): the observer takes over every field of the packet
merge(copy, packet) ==
  [key \in DOMAIN copy \cup DOMAIN packet |->
     IF key \in DOMAIN packet THEN packet[key] ELSE copy[key]]

\* the copies after a tracked observer has merged the value returned for the entity
observe(C, playerId, entityId, packet) ==
  [C EXCEPT ![playerId] =
     [e \in DOMAIN C[playerId] \cup {entityId} |->
        IF e = entityId
        THEN merge(IF e \in DOMAIN C[playerId] THEN C[playerId][e] ELSE << >>, packet)
        ELSE C[playerId][e]]]

\* a newly tracked observer has no copies
DeltaInitPlayer(playerId) ==
  /\ playerId <= MaxTracked
  /\ previousStates' = deltaInitPlayer(previousStates, playerId)
  /\ copies' = [q \in DOMAIN copies \cup {playerId} |->
                  IF q = playerId THEN << >> ELSE copies[q]]
  /\ last' = Call("deltaInit", 0, playerId, 0, 0, Undefined)
  /\ DeltaUnchanged

\* last.items holds the state passed in and, unless null was returned, the result
ComputeDelta(playerId, entityId, currentState) ==
  /\ LET r == computeDelta(previousStates, playerId, entityId, currentState)
     IN /\ previousStates' = r.previousStates
        /\ copies' = IF playerId \in DOMAIN copies /\ ~r.null
                     THEN observe(copies, playerId, entityId, r.ret) ELSE copies
        /\ last' = [Call("computeDelta", 0, playerId, entityId, 0, Undefined) EXCEPT
                      !.ok = ~r.null,
                      !.items = IF r.null THEN <<currentState>>
                                ELSE <<currentState, r.ret>>]
  /\ DeltaUnchanged

DeltaRemovePlayer(playerId) ==
  /\ previousStates' = deltaRemovePlayer(previousStates, playerId)
  /\ copies' = Without(copies, playerId)
  /\ last' = Call("deltaRemove", 0, playerId, 0, 0, Undefined)
  /\ DeltaUnchanged

-----------------------------------------------------------------------------
(* GameMap driven through its methods *)

\* objects pushed onto one tile
MaxObjects == 1

\* the tiles set, built on and asked about: two floor tiles side by side
ProbeCells == {<<1, 1>>, <<2, 1>>}

\* the points asked about: the probe cells, a border tile, and points off the map
QueryCells == ProbeCells \cup {<<0, 1>>, <<-1, 1>>, <<MapWidth, 1>>, <<1, MapHeight>>}

\* sprite ids written by setTile: grass, a cave wall, the blocked sprite
TileCodes == {0, 7, 325}

\* values of map.wallTile: null, or the cave wall sprite
WallCodes == {Undefined, 7}

MapUnchanged ==
  UNCHANGED <<now, clients, nextSessionId, nextPlayerId, players, mobs, netVars, pendingMoves,
              playerHistory, previousStates, playerInventories, queueVars, tickCount,
              loopVars, outbox>>

MapCall(op, x, y, ok) == [Call(op, 0, NoPlayer, x, y, Undefined) EXCEPT !.ok = ok]

MapSetTile(x, y, spriteId) ==
  /\ maps' = [maps EXCEPT !["overworld"] = setTile(@, x, y, spriteId)]
  /\ last' = MapCall("setTile", x, y, FALSE)
  /\ MapUnchanged

MapSetWallTile(code) ==
  /\ maps' = [maps EXCEPT !["overworld"].wallTile = code]
  /\ last' = MapCall("wallTile", 0, 0, FALSE)
  /\ MapUnchanged

MapAddObject(x, y, isBlocking) ==
  /\ LET key == getKey(x, y)
     IN key \in DOMAIN getMap("overworld").objects =>
          Len(getMap("overworld").objects[key]) < MaxObjects
  /\ maps' = [maps EXCEPT !["overworld"] = addObject(@, x, y, 1, isBlocking)]
  /\ last' = MapCall("addObject", x, y, isBlocking)
  /\ MapUnchanged

MapRemoveObjects(x, y) ==
  /\ maps' = [maps EXCEPT !["overworld"] = removeObjects(@, x, y)]
  /\ last' = MapCall("removeObjects", x, y, FALSE)
  /\ MapUnchanged

MapIsWalkable(x, y) ==
  /\ last' = MapCall("isWalkable", x, y, mapIsWalkable(getMap("overworld"), x, y))
  /\ UNCHANGED maps
  /\ MapUnchanged

-----------------------------------------------------------------------------
(* Specifications *)

Next ==
  \/ \E dt \in TimeSteps : AdvanceTime(dt)
  \/ Connect
  \/ \E sid \in 1 .. MaxSessions : GuestLogin(sid)
  \/ \E sid \in 1 .. MaxSessions, pkt \in HPackets : MoveStart(sid, pkt)
  \/ \E sid \in 1 .. MaxSessions, pkt \in MPackets : DirectionChange(sid, pkt)
  \/ Tick
  \/ \E sid \in 1 .. MaxSessions : Disconnect(sid)

Spec == Init /\ [][Next]_vars

NextQueue ==
  \/ \E playerId \in 1 .. MaxPlayers : Enqueue(playerId)
  \/ \E playerId \in 1 .. MaxPlayers : Drain(playerId)
  \/ \E playerId \in 1 .. MaxPlayers : Remove(playerId)
  \/ Connect
  \/ \E sid \in 1 .. MaxSessions : GuestLogin(sid)
  \/ Tick
  \/ \E sid \in 1 .. MaxSessions : Disconnect(sid)

SpecQueue == Init /\ [][NextQueue]_vars

NextAC ==
  \/ \E dt \in TimeSteps : AdvanceTime(dt)
  \/ \E playerId \in ACIds : ACInitPlayer(playerId)
  \/ \E playerId \in ACIds : ACRecordMove(playerId, 1, 1)
  \/ \E playerId \in ACIds : ACDetectSpeedHack(playerId, defaultSpeed)
  \/ \E playerId \in ACIds, claimedX \in {1, 3, 4}, claimedY \in {1, 2} :
        ACDetectTeleport(playerId, claimedX, claimedY, 1, 1)
  \/ \E playerId \in ACIds : ACShouldKick(playerId)
  \/ \E playerId \in ACIds : ACRemovePlayer(playerId)

SpecAC == Init /\ [][NextAC]_vars

\* AntiCheat.recordMove called with the next sample of a participant that walks
\* east from x = 1, one tile a recording
HistRecordMove(playerId) ==
  LET H == playerHistory
      x == IF playerId \in DOMAIN H /\ Len(H[playerId].positions) > 0
           THEN H[playerId].positions[Len(H[playerId].positions)].x + 1
           ELSE 1
  IN /\ x <= MaxRecorded
     /\ playerHistory' = recordMove(playerHistory, now, playerId, x, 1)
     /\ last' = ACCall("recordMove", playerId, x, 1, playerId \in DOMAIN playerHistory)
     /\ ACUnchanged

\* histories as long as historySize and longer
NextHist ==
  \/ \E dt \in TimeSteps : AdvanceTime(dt)
  \/ \E playerId \in ACIds : ACInitPlayer(playerId)
  \/ \E playerId \in ACIds : HistRecordMove(playerId)
  \/ \E playerId \in ACIds : ACRemovePlayer(playerId)

SpecHist == Init /\ [][NextHist]_vars

\* two players in the game, the second standing off the first by every pair of
\* view offsets, on the code's 100 x 100 map
InitView ==
  /\ now = StartTime
  /\ clients = [sid \in 1 .. 2 |-> [playerId |-> sid, authenticated |-> TRUE]]
  /\ nextSessionId = 3
  /\ nextPlayerId = 3
  /\ \E dx \in ViewOffsetsX, dy \in ViewOffsetsY :
       /\ <<dx, dy>> # <<0, 0>>
       /\ players = [pid \in 1 .. 2 |->
                       [newPlayer(pid) EXCEPT
                          !.x = IF pid = 1 THEN ViewOrigin ELSE ViewOrigin + dx,
                          !.y = IF pid = 1 THEN ViewOrigin ELSE ViewOrigin + dy,
                          !.fromX = IF pid = 1 THEN ViewOrigin ELSE ViewOrigin + dx,
                          !.fromY = IF pid = 1 THEN ViewOrigin ELSE ViewOrigin + dy]]
  /\ mobs = << >>
  /\ maps = [mapId \in {"overworld"} |-> loadMap(mapId)]
  /\ pendingMoves = << >>
  /\ playerHistory = [pid \in 1 .. 2 |-> newHistory]
  /\ previousStates = [pid \in 1 .. 2 |-> << >>]
  /\ playerInventories = 1 .. 2
  /\ queues = << >>
  /\ inputCount = 0
  /\ accepted = << >>
  /\ returned = {}
  /\ tickCount = 0
  /\ running = TRUE
  /\ timer = 1
  /\ timers = {1}
  /\ buckets = << >>
  /\ passedAt = << >>
  /\ lookups = {}
  /\ copies = << >>
  /\ outbox = {}
  /\ last = NoCall

NextView ==
  \/ \E sid \in 1 .. 2, pkt \in ViewPackets : DirectionChange(sid, pkt)
  \/ \E sid \in 1 .. 2 : Disconnect(sid)

SpecView == InitView /\ [][NextView]_vars

NextDelta ==
  \/ \E playerId \in DeltaIds : DeltaInitPlayer(playerId)
  \/ \E playerId \in DeltaIds, entityId \in DeltaEntities :
        \E currentState \in DeltaStates(entityId) :
          ComputeDelta(playerId, entityId, currentState)
  \/ \E playerId \in DeltaIds : DeltaRemovePlayer(playerId)

SpecDelta == Init /\ [][NextDelta]_vars

NextMap ==
  \/ \E c \in ProbeCells, spriteId \in TileCodes : MapSetTile(c[1], c[2], spriteId)
  \/ \E code \in WallCodes : MapSetWallTile(code)
  \/ \E c \in ProbeCells, isBlocking \in BOOLEAN : MapAddObject(c[1], c[2], isBlocking)
  \/ \E c \in ProbeCells : MapRemoveObjects(c[1], c[2])
  \/ \E c \in QueryCells : MapIsWalkable(c[1], c[2])
  \/ Connect
  \/ \E sid \in 1 .. MaxSessions : GuestLogin(sid)

SpecMap == Init /\ [][NextMap]_vars

\* the connections of the tile speed specification
MaxSpeedSessions == 1

\* the 'h' packets of the tile speed specification: north and west of the centre
SpeedPackets == [x : {MapWidth \div 2}, y : {MapHeight \div 2}, d : {0, 3}]

SpeedConnect ==
  /\ nextSessionId <= MaxSpeedSessions
  /\ NetworkServer_handleConnection

\* map.tileSpeed[tileId] = mod
MapSetTileSpeed(tileId, mod) ==
  /\ maps' = [maps EXCEPT !["overworld"].tileSpeed =
                [k \in DOMAIN @ \cup {tileId} |-> IF k = tileId THEN mod ELSE @[k]]]
  /\ last' = MapCall("tileSpeed", tileId, mod, FALSE)
  /\ MapUnchanged

\* moves over tiles whose types have speed modifiers: grass and the sprite
\* written to the tile north of the centre are made slower by 250 ms, or faster
\* by 700 ms, which brings the default speed below 100
NextSpeed ==
  \/ \E dt \in TimeSteps : AdvanceTime(dt)
  \/ SpeedConnect
  \/ \E sid \in 1 .. MaxSpeedSessions : GuestLogin(sid)
  \/ \E sid \in 1 .. MaxSpeedSessions, pkt \in SpeedPackets : MoveStart(sid, pkt)
  \/ Tick
  \/ MapSetTile(MapWidth \div 2, MapHeight \div 2 - 1, 7)
  \/ \E tileId \in {0, 7}, mod \in {250, -700} : MapSetTileSpeed(tileId, mod)

SpecSpeed == Init /\ [][NextSpeed]_vars

\* MapLoader.getMap(mapId); its value is in last.items
MapGetMap(mapId) ==
  /\ maps' = MapLoader_getMap(maps, mapId)
  /\ last' = [MapCall("getMap", 0, 0, mapId \in DOMAIN maps') EXCEPT
                !.items = IF mapId \in DOMAIN maps' THEN <<maps'[mapId]>> ELSE << >>]
  /\ MapUnchanged

\* setTile on a map that getMap returned before
LoaderSetTile(mapId, x, y, spriteId) ==
  /\ mapId \in DOMAIN maps
  /\ maps' = [maps EXCEPT ![mapId] = setTile(@, x, y, spriteId)]
  /\ last' = MapCall("setTile", x, y, FALSE)
  /\ MapUnchanged

\* maps fetched, edited and fetched again while a player moves; getMap is called
\* for the map loaded at start and for one that is not
NextLoader ==
  \/ \E dt \in TimeSteps : AdvanceTime(dt)
  \/ SpeedConnect
  \/ \E sid \in 1 .. MaxSpeedSessions : GuestLogin(sid)
  \/ \E sid \in 1 .. MaxSpeedSessions, pkt \in SpeedPackets : MoveStart(sid, pkt)
  \/ Tick
  \/ \E mapId \in {"overworld", "cave"} : MapGetMap(mapId)
  \/ \E mapId \in {"overworld", "cave"}, spriteId \in {0, 7} :
        LoaderSetTile(mapId, 1, 1, spriteId)

SpecLoader == Init /\ [][NextLoader]_vars

\* GameServer.handleLogin up to the await in AuthService.handleLogin: the
\* credentials are well-formed and the account lookup is under way
LoginStart(sid) ==
  /\ sid \in DOMAIN clients
  /\ sid \notin lookups
  /\ lookups' = lookups \cup {sid}
  /\ outbox' = {}
  /\ last' = Call("login", sid, clients[sid].playerId, 0, 0, Undefined)
  /\ UNCHANGED <<now, clients, nextSessionId, nextPlayerId, players, mobs, pendingMoves,
                 playerHistory, previousStates, playerInventories, queueVars, tickCount>>
  /\ UNCHANGED <<loopVars, maps, buckets, passedAt, copies>>

\* GameServer.handleLogin from the await on: the lookup has returned; the
\* credentials are refused with a 'logmsg', or the client is marked and the
\* player spawned
LoginResume(sid, accept) ==
  /\ sid \in lookups
  /\ lookups' = lookups \ {sid}
  /\ IF accept
     THEN /\ nextPlayerId <= MaxPlayers
          /\ spawnPlayer(sid, "loggedIn")
     ELSE /\ outbox' = IF sid \in DOMAIN clients
                       THEN {Msg(sid, "logmsg", NoPlayer, 0, 0, Undefined)} ELSE {}
          /\ last' = Call("refused", sid, NoPlayer, 0, 0, Undefined)
          /\ UNCHANGED <<now, clients, nextSessionId, nextPlayerId, players, mobs,
                         pendingMoves, playerHistory, previousStates, playerInventories,
                         queueVars, tickCount>>
          /\ UNCHANGED <<loopVars, maps>>
  /\ UNCHANGED <<buckets, passedAt, copies>>

NextAuth ==
  \/ Connect
  \/ \E sid \in 1 .. MaxSessions : GuestLogin(sid)
  \/ \E sid \in 1 .. MaxSessions : LoginStart(sid)
  \/ \E sid \in 1 .. MaxSessions, accept \in BOOLEAN : LoginResume(sid, accept)
  \/ \E sid \in 1 .. MaxSessions : Disconnect(sid)

SpecAuth == Init /\ [][NextAuth]_vars

\* the sessions and logins of the crowded server: one more than the map has
\* walkable tiles
MaxCrowd == (MapWidth - 2) * (MapHeight - 2) + 1

\* a connection, of the MaxCrowd the crowded server takes
CrowdConnect ==
  /\ nextSessionId <= MaxCrowd
  /\ NetworkServer_handleConnection

\* a connection's first 'guest' packet
CrowdLogin(sid) ==
  /\ nextPlayerId <= MaxCrowd
  /\ sid \in DOMAIN clients /\ clients[sid].playerId = NoPlayer
  /\ GameServer_handleGuestLogin(sid)
  /\ UNCHANGED netVars

NextCrowd ==
  \/ CrowdConnect
  \/ \E sid \in 1 .. MaxCrowd : CrowdLogin(sid)
  \/ \E sid \in 1 .. MaxCrowd : Disconnect(sid)

SpecCrowd == Init /\ [][NextCrowd]_vars

\* the connections of the crowded server that send move-starts
MaxWalkers == 1

\* players that spawn, up to one more than the map has walkable tiles, while the
\* first of them sends move-starts in every direction
NextWalk ==
  \/ CrowdConnect
  \/ \E sid \in 1 .. MaxCrowd : CrowdLogin(sid)
  \/ \E sid \in 1 .. MaxWalkers,
        pkt \in [x : {MapWidth \div 2}, y : {MapHeight \div 2}, d : 0 .. 3] :
       MoveStart(sid, pkt)
  \/ \E dt \in TimeSteps : AdvanceTime(dt)
  \/ Tick

SpecWalk == Init /\ [][NextWalk]_vars

NextNet ==
  \/ \E dt \in NetSteps : NetAdvanceTime(dt)
  \/ Connect
  \/ \E sid \in 1 .. MaxSessions, packet \in NetPackets : Message(sid, packet)
  \/ \E sid \in 1 .. MaxSessions : Disconnect(sid)

SpecNet == Init /\ [][NextNet]_vars

\* the interval of setInterval in the model (50 ms at the default TICK_RATE)
LiveTickInterval == 250

\* the wall clock of the periodic specification runs to LiveMaxTime
LiveMaxTime == 3000

\* the timer set by TickLoop.start fires: TickLoop.tick, LiveTickInterval after
\* the tick before
LiveTick ==
  /\ timers # {}
  /\ now + LiveTickInterval <= LiveMaxTime
  /\ now' = now + LiveTickInterval
  /\ tickCount' = tickCount + 1
  /\ LET r == movementUpdate(players, pendingMoves, now + LiveTickInterval)
     IN /\ players' = r.players
        /\ pendingMoves' = r.pendingMoves
        /\ outbox' = IF (tickCount + 1) % snapshotInterval = 0
                     THEN sendPlayerSnapshots(clients, r.players) ELSE {}
  /\ last' = Call("tick", 0, NoPlayer, 0, 0, Undefined)
  /\ UNCHANGED <<clients, nextSessionId, nextPlayerId, mobs, playerHistory,
                 previousStates, playerInventories, queueVars>>
  /\ UNCHANGED <<loopVars, maps, netVars>>

\* an 'h' packet sent while a tick after the move's completion is still to come
LiveMoveStart(sid, pkt) ==
  /\ now + defaultSpeed + LiveTickInterval <= LiveMaxTime
  /\ MoveStart(sid, pkt)

NextLive ==
  \/ LiveTick
  \/ Connect
  \/ \E sid \in 1 .. MaxSessions : GuestLogin(sid)
  \/ \E sid \in 1 .. MaxSessions, pkt \in LoopPackets : LiveMoveStart(sid, pkt)
  \/ \E sid \in 1 .. MaxSessions : Disconnect(sid)

\* the interval timer keeps firing
SpecLive == Init /\ [][NextLive]_vars /\ WF_vars(LiveTick)

NextLoop ==
  \/ \E dt \in TimeSteps : AdvanceTime(dt)
  \/ Connect
  \/ \E sid \in 1 .. MaxSessions : GuestLogin(sid)
  \/ \E sid \in 1 .. MaxSessions, pkt \in LoopPackets : MoveStart(sid, pkt)
  \/ Start
  \/ Stop
  \/ Tick
  \/ \E stage \in ThrowStages : TickThrows(stage)

SpecLoop == Init /\ [][NextLoop]_vars

-----------------------------------------------------------------------------
(* Properties *)

\* the step is GameServer.handleMoveStart with a direction in 0..3
MoveStartStep == last'.op = "h" /\ now' = now /\ last'.d \in 0 .. 3

\* the tile a player faces when it turns to d
TargetOf(pl, d) ==
  CASE d = 0 -> <<pl.x, pl.y - 1>>
    [] d = 1 -> <<pl.x + 1, pl.y>>
    [] d = 2 -> <<pl.x, pl.y + 1>>
    [] d = 3 -> <<pl.x - 1, pl.y>>

\* the generated map is grass inside a border of walls
WallAt(t) == ~(t[1] \in 1 .. MapWidth - 2 /\ t[2] \in 1 .. MapHeight - 2)

OtherPlayerAt(P, t, pid) ==
  \E q \in DOMAIN P \ {pid} :
    P[q].mapId = P[pid].mapId /\ P[q].x = t[1] /\ P[q].y = t[2]

ClaimedDistance(c, pl) == Abs(c.x - pl.x) + Abs(c.y - pl.y)

\* C1: an 'h' or 'm' packet only puts the intent in the sender's input queue; no
\* participant and no pending move changes outside a tick
C1_PacketsOnlyEnqueue ==
  [][(last'.op \in {"h", "m"} /\ now' = now) =>
       /\ players' = players
       /\ pendingMoves' = pendingMoves
       /\ size(queues', last'.pid) = size(queues, last'.pid) + 1]_vars

C3_EnqueueBounded ==
  /\ [](\A p \in DOMAIN queues : Len(queues[p]) <= maxBufferSize)
  /\ [][last'.op = "enqueue" =>
          LET p      == last'.pid
              before == IF p \in DOMAIN queues THEN queues[p] ELSE << >>
          IN /\ last'.ok = (Len(before) < maxBufferSize)
             /\ last'.ok =>
                  /\ Len(queues'[p]) = Len(before) + 1
                  /\ SubSeq(queues'[p], 1, Len(before)) = before
                  /\ queues'[p][Len(before) + 1].n = last'.items[1]
             /\ ~last'.ok => queues'[p] = before
             /\ \A q \in DOMAIN queues \ {p} : queues'[q] = queues[q]]_vars

\* an enqueue on a full queue was refused
C3_Witness ==
  /\ last.op = "enqueue" /\ ~last.ok
  /\ Len(queues[last.pid]) = maxBufferSize

\* C4: drain returns the inputs accepted since the last drain or remove, in arrival
\* order, empties the queue, and returns no input a drain returned before
C4_DrainFifo ==
  [][last'.op = "drain" =>
       LET p == last'.pid
       IN /\ last'.items = IF p \in DOMAIN accepted THEN accepted[p] ELSE << >>
          /\ p \in DOMAIN queues' => queues'[p] = << >>
          /\ \A i \in 1 .. Len(last'.items) : last'.items[i] \notin returned
          /\ \A q \in DOMAIN queues \ {p} : queues'[q] = queues[q]]_vars

\* a drain returned two inputs, the older first, after an earlier drain
C4_Witness ==
  /\ last.op = "drain" /\ Len(last.items) = 2
  /\ last.items[1] < last.items[2]
  /\ returned # {last.items[1], last.items[2]}
  /\ queues[last.pid] = << >>

\* C5: a move-start toward a wall or a tile another player holds changes the
\* mover's facing and nothing else, and sends no 'move'
C5_BlockedMoveTurnsOnly ==
  [][MoveStartStep =>
       LET pid == last'.pid
           pl  == players[pid]
           t   == TargetOf(pl, last'.d)
       IN (WallAt(t) \/ OtherPlayerAt(players, t, pid)) =>
            /\ DOMAIN players' = DOMAIN players
            /\ \A q \in DOMAIN players \ {pid} : players'[q] = players[q]
            /\ players'[pid] = [pl EXCEPT !.dir = players'[pid].dir]
            /\ (~pl.isMoving /\ ClaimedDistance(last', pl) <= 2) =>
                 players'[pid].dir = last'.d
            /\ pendingMoves' = pendingMoves
            /\ \A m \in outbox' : m.type # "move"]_vars

\* a player has just been turned toward the tile another player holds
C5_Witness ==
  /\ last.op = "h" /\ last.d \in 0 .. 3 /\ last.pid \in DOMAIN players
  /\ LET pl == players[last.pid]
     IN /\ OtherPlayerAt(players, TargetOf(pl, last.d), last.pid)
        /\ pl.dir = last.d /\ ~pl.isMoving /\ pl.dir # 2
        /\ \E m \in outbox : m.type = "p" /\ m.id = last.pid /\ m.d = last.d

\* C6: of two players next to one free tile, the one whose move-start is handled
\* first takes the tile, and the other, handled second, only turns
C6_FirstMoverWins ==
  [][MoveStartStep =>
       LET pid == last'.pid
           pl  == players[pid]
           t   == TargetOf(pl, last'.d)
       IN \A q \in DOMAIN players \ {pid} :
            (/\ players[q].mapId = pl.mapId
             /\ ~pl.isMoving
             /\ ClaimedDistance(last', pl) <= 2
             /\ ~WallAt(t)) =>
              \* first: the tile is free and q, idle, is next to it
              /\ (/\ ~OtherPlayerAt(players, t, pid)
                  /\ ~players[q].isMoving
                  /\ Abs(players[q].x - t[1]) + Abs(players[q].y - t[2]) = 1) =>
                   /\ <<players'[pid].x, players'[pid].y>> = t
                   /\ players'[pid].isMoving
                   /\ players'[q] = players[q]
              \* second: q has taken the tile
              /\ (<<players[q].x, players[q].y>> = t) =>
                   /\ <<players'[pid].x, players'[pid].y>> = <<pl.x, pl.y>>
                   /\ ~players'[pid].isMoving
                   /\ players'[pid].dir = last'.d
                   /\ players'[q] = players[q]]_vars

\* a player asked for the tile another player moved onto in the same instant, and
\* only turned
C6_Witness ==
  /\ last.op = "h" /\ last.d \in 0 .. 3 /\ last.pid \in DOMAIN players
  /\ LET pl == players[last.pid]
         t  == TargetOf(pl, last.d)
     IN /\ ~pl.isMoving /\ pl.dir = last.d /\ pl.inputSequence = 0
        /\ \E q \in DOMAIN players \ {last.pid} :
             /\ <<players[q].x, players[q].y>> = t
             /\ players[q].isMoving /\ players[q].lastMoveTime = now
             /\ <<players[q].fromX, players[q].fromY>> # t
        /\ \E m \in outbox : m.type = "p" /\ m.id = last.pid

\* C7: claimed position farther than 2: a 'pos' and nothing else; 1 or 2 away: a
\* 'pos', then the move as the server's position decides it; 0 away: no 'pos'
C7_ClaimedPosition ==
  [][(MoveStartStep /\ ~players[last'.pid].isMoving) =>
       LET pid  == last'.pid
           pl   == players[pid]
           dist == ClaimedDistance(last', pl)
           corr == [to |-> last'.sid, type |-> "pos", id |-> pid, x |-> pl.x,
                    y |-> pl.y, d |-> Undefined, data |-> {}]
           ref  == handleMoveStart(clients, players, mobs, pendingMoves, now, pid,
                                   [x |-> pl.x, y |-> pl.y, d |-> last'.d])
       IN /\ dist > 2 =>
               players' = players /\ pendingMoves' = pendingMoves /\ outbox' = {corr}
          /\ dist \in {1, 2} =>
               /\ corr \in outbox'
               /\ players'[pid].dir = last'.d
               /\ <<players'[pid].x, players'[pid].y>> \in {<<pl.x, pl.y>>, TargetOf(pl, last'.d)}
               /\ players' = ref.players /\ pendingMoves' = ref.pendingMoves
               /\ outbox' = ref.out \cup {corr}
          /\ dist = 0 => \A m \in outbox' : m.type # "pos"]_vars

\* a move-start that claimed a tile 1 or 2 away was corrected and then accepted
C7_Witness ==
  /\ last.op = "h" /\ last.d \in 0 .. 3 /\ last.pid \in DOMAIN players
  /\ LET pl == players[last.pid]
     IN /\ pl.isMoving /\ pl.lastMoveTime = now
        /\ Abs(last.x - pl.fromX) + Abs(last.y - pl.fromY) \in {1, 2}
        /\ <<pl.x, pl.y>> = TargetOf([x |-> pl.fromX, y |-> pl.fromY], last.d)
        /\ \E m \in outbox : m.type = "pos" /\ m.x = pl.fromX /\ m.y = pl.fromY
        /\ \E m \in outbox : m.type = "move" /\ m.id = last.pid

\* C8: a move-start e ms after the last accepted move is rejected with a correction
\* iff e < effective speed * 0.85, and is applied otherwise (target walkable and free)
C8_SpeedCheckDecides ==
  [][MoveStartStep =>
       LET pid == last'.pid
           pl  == players[pid]
           t   == TargetOf(pl, last'.d)
           e   == now - pl.lastMoveTime
       IN (/\ pl.lastMoveTime > 0
           /\ ClaimedDistance(last', pl) = 0
           /\ ~WallAt(t) /\ ~OtherPlayerAt(players, t, pid)) =>
            IF e * 100 < pl.curSpeed * 85
            THEN /\ <<players'[pid].x, players'[pid].y>> = <<pl.x, pl.y>>
                 /\ \E m \in outbox' : m.type = "pos" /\ m.to = last'.sid
            ELSE <<players'[pid].x, players'[pid].y>> = t]_vars

\* C9: a move-start rejected for a claimed position farther than the teleport
\* distance, or as a speed hack, adds one to the sender's violation counter
C9_RejectionCounted ==
  [][(MoveStartStep /\ ~players[last'.pid].isMoving) =>
       LET pid == last'.pid
           pl  == players[pid]
           t   == TargetOf(pl, last'.d)
       IN (\/ ClaimedDistance(last', pl) > 2
           \/ /\ ~WallAt(t) /\ ~OtherPlayerAt(players, t, pid)
              /\ pl.lastMoveTime > 0
              /\ (now - pl.lastMoveTime) * 100 < pl.curSpeed * 85) =>
            /\ pid \in DOMAIN playerHistory'
            /\ playerHistory'[pid].violations = playerHistory[pid].violations + 1]_vars

\* C10: shouldKick of a tracked participant is true iff its counter is at least 10;
\* but for initPlayer and removePlayer the counter never goes down, so shouldKick
\* stays true
C10_KickThreshold ==
  /\ [][(last'.op = "shouldKick" /\ now' = now /\ last'.pid \in DOMAIN playerHistory) =>
          last'.ok = (playerHistory[last'.pid].violations >= 10)]_vars
  /\ [][last'.op \notin {"initPlayer", "removePlayer"} =>
          \A p \in DOMAIN playerHistory :
            /\ p \in DOMAIN playerHistory'
            /\ playerHistory'[p].violations >= playerHistory[p].violations
            /\ playerHistory[p].violations >= 10 => playerHistory'[p].violations >= 10]_vars

\* shouldKick has answered true at exactly 10 violations
C10_Witness ==
  /\ last.op = "shouldKick" /\ last.ok
  /\ last.pid \in DOMAIN playerHistory
  /\ playerHistory[last.pid].violations = 10

\* C11: an accepted move sets (fromX, fromY) to the position before it; they stay
\* so until the tick that sees the pending move's completion time reached, which
\* makes them equal to (x, y) and clears isMoving; nothing else changes them
C11_FromUntilCompletion ==
  [][\A p \in DOMAIN players \cap DOMAIN players' :
       LET a == players[p]
           b == players'[p]
       IN /\ (~a.isMoving /\ b.isMoving) =>
               /\ last'.op = "h" /\ last'.pid = p
               /\ <<b.fromX, b.fromY>> = <<a.x, a.y>>
               /\ <<b.x, b.y>> # <<a.x, a.y>>
          /\ (~a.isMoving /\ ~b.isMoving) => <<b.fromX, b.fromY>> = <<a.fromX, a.fromY>>
          /\ a.isMoving =>
               IF tickCount' = tickCount + 1 /\ now >= a.lastMoveTime + a.curSpeed
               THEN /\ ~b.isMoving
                    /\ <<b.fromX, b.fromY>> = <<b.x, b.y>>
                    /\ <<b.x, b.y>> = <<a.x, a.y>>
               ELSE /\ b.isMoving
                    /\ <<b.fromX, b.fromY>> = <<a.fromX, a.fromY>>
                    /\ <<b.x, b.y>> = <<a.x, a.y>>]_vars

\* a tick has just completed a move: the player stands still on the tile it moved
\* to, one tile from where it spawned
C11_Witness ==
  /\ last.op = "tick"
  /\ \E p \in DOMAIN players :
       /\ ~players[p].isMoving /\ players[p].inputSequence = 1
       /\ now >= players[p].lastMoveTime + players[p].curSpeed
       /\ <<players[p].fromX, players[p].fromY>> = <<players[p].x, players[p].y>>
       /\ p \notin DOMAIN pendingMoves

\* C12: when the update of a tick throws, the loop keeps running with its timer,
\* the tick count has advanced by one (the tick is not run again, the next tick
\* is the next count), and what the update changed before the throw stays changed
C12_ThrowIsolated ==
  /\ [](last.op = "tickThrow" => running /\ timers # {} /\ timer \in timers)
  /\ [][last'.op = "tickThrow" /\ now' = now /\ tickCount' # tickCount =>
          /\ tickCount' = tickCount + 1
          /\ <<running', timer', timers'>> = <<running, timer, timers>>
          /\ DOMAIN players' = DOMAIN players
          /\ \A p \in DOMAIN players :
               IF /\ last'.x = 1 /\ players[p].isMoving
                  /\ now >= players[p].lastMoveTime + players[p].curSpeed
               THEN /\ ~players'[p].isMoving
                    /\ <<players'[p].fromX, players'[p].fromY>> = <<players[p].x, players[p].y>>
                    /\ p \notin DOMAIN pendingMoves'
               ELSE /\ players'[p] = players[p]
                    /\ (p \in DOMAIN pendingMoves') = (p \in DOMAIN pendingMoves)]_vars

\* an update has thrown after completing a move, and the loop still runs
C12_Witness ==
  /\ last.op = "tickThrow" /\ last.x = 1 /\ tickCount >= 2
  /\ running /\ timers # {}
  /\ \E p \in DOMAIN players :
       /\ ~players[p].isMoving /\ players[p].inputSequence = 1
       /\ p \notin DOMAIN pendingMoves

\* C13: a timer exists iff the loop is running, there is never more than one,
\* start on a running loop and stop on a stopped one change nothing, and no
\* update fires while the loop is stopped
C13_OneTimer ==
  /\ []((timers # {}) = running)
  /\ [](Cardinality(timers) <= 1)
  /\ []((timer # NoTimer) = running)
  /\ [][(last'.op \in {"tick", "tickThrow"} /\ tickCount' # tickCount) => running]_vars
  /\ [][(last'.op = "start" /\ now' = now) =>
          /\ running'
          /\ running => <<running', timer', timers'>> = <<running, timer, timers>>]_vars
  /\ [][(last'.op = "stop" /\ now' = now) =>
          /\ ~running' /\ timers' = {}
          /\ ~running => <<running', timer', timers'>> = <<running, timer, timers>>]_vars

\* start was called on a loop that was running and had ticked
C13_Witness ==
  /\ last.op = "start" /\ last.ok
  /\ running /\ Cardinality(timers) = 1 /\ timer \in timers
  /\ tickCount >= 1

\* C14: an accepted move-start from (x, y) with direction d puts the player on
\* (x, y) + V[d], one tile away, facing d, moving, with lastMoveTime the time of
\* acceptance and a pending move that completes one effective speed later
C14_AcceptedMoveEffect ==
  [][MoveStartStep =>
       LET pid == last'.pid
           a   == players[pid]
           b   == players'[pid]
       IN [b EXCEPT !.dir = a.dir] # a =>
            /\ <<b.x, b.y>> = TargetOf(a, last'.d)
            /\ Abs(b.x - a.x) + Abs(b.y - a.y) = 1
            /\ b.dir = last'.d
            /\ b.isMoving /\ ~a.isMoving
            /\ b.lastMoveTime = now
            /\ b.inputSequence = a.inputSequence + 1
            /\ b.curSpeed = b.speed /\ b.curSpeed >= 100
            /\ pid \in DOMAIN pendingMoves'
            /\ pendingMoves'[pid].completeTime = now + b.curSpeed
            /\ pendingMoves'[pid].completeTime = now + 750
            /\ \A q \in DOMAIN players \ {pid} : players'[q] = players[q]]_vars

\* a move north has just been accepted
C14_Witness ==
  /\ last.op = "h" /\ last.d = 0 /\ last.pid \in DOMAIN pendingMoves
  /\ LET pl == players[last.pid]
     IN /\ pl.isMoving /\ pl.dir = 0 /\ pl.lastMoveTime = now
        /\ <<pl.x, pl.y>> = <<pl.fromX, pl.fromY - 1>>
        /\ pendingMoves[last.pid].completeTime = now + 750

\* C15: a participant has a pending move exactly while it is moving, and never two;
\* a pending move appears only with that participant's accepted move, is never
\* replaced, and goes only in the tick at or after its completion time or with
\* that participant's disconnect; only registered players have one
C15_OnePendingMove ==
  /\ [](DOMAIN pendingMoves \subseteq DOMAIN players)
  /\ [](\A p \in DOMAIN players : (p \in DOMAIN pendingMoves) = players[p].isMoving)
  /\ [][\A p \in DOMAIN pendingMoves \cup DOMAIN pendingMoves' :
          /\ (p \notin DOMAIN pendingMoves) =>
               /\ last'.op = "h" /\ last'.pid = p /\ now' = now
               /\ <<players'[p].x, players'[p].y>> # <<players[p].x, players[p].y>>
          /\ (p \notin DOMAIN pendingMoves') =>
               \/ /\ tickCount' = tickCount + 1
                  /\ now >= pendingMoves[p].completeTime
               \/ /\ last'.op = "close" /\ last'.pid = p
                  /\ p \notin DOMAIN players'
          /\ (p \in DOMAIN pendingMoves /\ p \in DOMAIN pendingMoves') =>
               /\ pendingMoves'[p] = pendingMoves[p]
               /\ tickCount' = tickCount + 1 => now < pendingMoves[p].completeTime]_vars

\* two participants each have their one pending move, the second just created
C15_Witness ==
  /\ last.op = "h" /\ last.pid \in DOMAIN pendingMoves
  /\ Cardinality(DOMAIN pendingMoves) = 2
  /\ \A p \in DOMAIN pendingMoves : players[p].isMoving
  /\ pendingMoves[last.pid].completeTime = now + 750

\* C16: once the disconnect of a connection has been handled, no participant that
\* was spawned for that connection has an input queue, a pending move, an
\* anti-cheat history or delta-tracking state
C16_DisconnectReleasesAll ==
  [][(last'.op = "close" /\ now' = now) =>
       \A p \in DOMAIN players :
         players[p].sessionId = last'.sid =>
           /\ p \notin DOMAIN queues'
           /\ p \notin DOMAIN pendingMoves'
           /\ p \notin DOMAIN playerHistory'
           /\ p \notin DOMAIN previousStates']_vars

\* C17: a broadcast about an entity at (x, y) reaches exactly the other connected
\* participants on its map that stand within floor(viewWidth / 2) columns and
\* floor(viewHeight / 2) rows of (x, y)
C17_ViewWindow ==
  [][(last'.op = "m" /\ last'.d \in 0 .. 3 /\ now' = now) =>
       LET pid == last'.pid
           e   == players[pid]
       IN {m.to : m \in {n \in outbox' : n.type = "p"}} =
            {sid \in DOMAIN clients :
               /\ clients[sid].playerId \in DOMAIN players \ {pid}
               /\ players[clients[sid].playerId].mapId = e.mapId
               /\ Abs(players[clients[sid].playerId].x - e.x) <= 17 \div 2
               /\ Abs(players[clients[sid].playerId].y - e.y) <= 13 \div 2}]_vars

\* C18: whatever a move-start or face-only packet leads to, the 'move' or 'p' it
\* triggers is never delivered to the connection that sent the packet
C18_SenderExcluded ==
  [][(last'.op \in {"h", "m"} /\ now' = now) =>
       \A m \in outbox' :
         m.type \in {"move", "p"} => m.to # last'.sid]_vars

\* C19: a tick whose count is a multiple of 5 sends every connected participant
\* one 'pl' listing exactly the other players in its view on its map, at their
\* positions after the tick's movement processing; any other tick sends no 'pl'
C19_SnapshotEveryFifth ==
  [][(last'.op = "tick" /\ tickCount' = tickCount + 1) =>
       LET pls == {m \in outbox' : m.type = "pl"}
           inView(o, p) ==
             /\ o # p
             /\ players'[o].mapId = players'[p].mapId
             /\ Abs(players'[o].x - players'[p].x) <= 17 \div 2
             /\ Abs(players'[o].y - players'[p].y) <= 13 \div 2
       IN IF tickCount' % 5 = 0
          THEN \A sid \in DOMAIN clients :
                 clients[sid].playerId \in DOMAIN players' =>
                   LET p == clients[sid].playerId
                   IN /\ Cardinality({m \in pls : m.to = sid}) = 1
                      /\ \A m \in pls : m.to = sid =>
                           m.data = {[id |-> o, x |-> players'[o].x, y |-> players'[o].y,
                                      d |-> players'[o].dir] :
                                     o \in {q \in DOMAIN players' : inView(q, p)}}
          ELSE pls = {}]_vars

C21_WalkableByMapOnly ==
  [][(last'.op = "isWalkable" /\ maps' = maps) =>
       LET m    == maps["overworld"]
           x    == last'.x
           y    == last'.y
           off  == x < 0 \/ y < 0 \/ x >= m.width \/ y >= m.height
           code == m.tiles[y * m.width + x]
       IN last'.ok = ~(\/ off
                       \/ code = 325
                       \/ (m.wallTile # Undefined /\ code = m.wallTile)
                       \/ (10000 * x + y) \in m.blockingObjects)]_vars

\* with a player standing on it, a grass tile under a blocking object was found
\* not walkable, and the cave wall next to it neither
C21_Witness ==
  /\ last.op = "isWalkable" /\ ~last.ok /\ <<last.x, last.y>> = <<1, 1>>
  /\ LET m == maps["overworld"]
     IN /\ m.tiles[m.width + 1] = 0
        /\ 10001 \in m.blockingObjects
        /\ m.tiles[m.width + 2] = 7 /\ m.wallTile = 7
  /\ \E p \in DOMAIN players : <<players[p].x, players[p].y>> = <<2, 2>>

\* an 'h' packet of a spawned participant got past the rate limiter: it reached
\* handleMoveStart, or PacketValidator turned it away
MoveStartArrived ==
  /\ now' = now
  /\ last'.op = "h" \/ (last'.op = "invalid" /\ last'.items = <<"h">>)
  /\ last'.sid \in DOMAIN clients
  /\ clients[last'.sid].playerId \in DOMAIN players

\* C22: a move-start whose direction is missing or not one of 0..3 changes no
\* participant, no pending move and no violation counter, and its sender is sent
\* one 'pos' carrying its authoritative position
C22_InvalidDirectionCorrected ==
  [][(MoveStartArrived /\ last'.d \notin 0 .. 3) =>
       LET pid == clients[last'.sid].playerId
           pl  == players[pid]
       IN /\ players' = players
          /\ pendingMoves' = pendingMoves
          /\ playerHistory' = playerHistory
          /\ outbox' = {[to |-> last'.sid, type |-> "pos", id |-> pid, x |-> pl.x,
                         y |-> pl.y, d |-> Undefined, data |-> {}]}]_vars

\* C23: of one session, no more than maxPerSecond packets pass the rate limiter
\* within any interval shorter than a second, and a packet over the limit reaches
\* neither the validator nor a handler: nothing changes and nothing is sent
C23_RateLimited ==
  /\ [](\A sid \in DOMAIN passedAt :
          Len(passedAt[sid]) > maxPerSecond =>
            passedAt[sid][Len(passedAt[sid])] - passedAt[sid][1] >= windowMs)
  /\ [][(last'.op = "limited" /\ now' = now) =>
          /\ players' = players /\ pendingMoves' = pendingMoves
          /\ clients' = clients /\ playerHistory' = playerHistory
          /\ passedAt' = passedAt
          /\ outbox' = {}]_vars

\* C24: no two players of the registry that are on the same map stand on the
\* same tile
C24_OneTilePerPlayer ==
  \A p, q \in DOMAIN players :
    (p # q /\ players[p].mapId = players[q].mapId) =>
      <<players[p].x, players[p].y>> # <<players[q].x, players[q].y>>

DirectionChangeArrived ==
  /\ now' = now
  /\ last'.op = "m" \/ (last'.op = "invalid" /\ last'.items = <<"m">>)
  /\ last'.sid \in DOMAIN clients
  /\ clients[last'.sid].playerId \in DOMAIN players

\* C26: a face-only intent with a valid direction sets the sender's facing and
\* nothing else, whatever position it claims and whether or not the sender is
\* mid-traversal, and sends one 'p' and no 'move' to each other player in view;
\* with an invalid direction nothing changes and nothing is sent
C26_FaceOnlyIntent ==
  [][DirectionChangeArrived =>
       LET sid == last'.sid
           pid == clients[sid].playerId
           pl  == players[pid]
           observers == {s \in DOMAIN clients \ {sid} :
                           clients[s].playerId \in DOMAIN players \ {pid}}
       IN /\ pendingMoves' = pendingMoves
          /\ playerHistory' = playerHistory
          /\ queues' = queues
          /\ clients' = clients
          /\ IF last'.d \in 0 .. 3
             THEN /\ players' = [players EXCEPT ![pid].dir = last'.d]
                  /\ outbox' = {[to |-> s, type |-> "p", id |-> pid, x |-> pl.x,
                                 y |-> pl.y, d |-> last'.d, data |-> {}] : s \in observers}
             ELSE /\ players' = players
                  /\ outbox' = {}]_vars

\* a player travelling west has just been turned north by an 'm' packet that
\* claimed another tile than the one it is on, and the other player was sent the 'p'
C26_Witness ==
  /\ last.op = "m" /\ last.d = 0 /\ last.pid \in DOMAIN players
  /\ LET pl == players[last.pid]
     IN /\ pl.isMoving /\ last.pid \in DOMAIN pendingMoves
        /\ pl.x = pl.fromX - 1 /\ pl.y = pl.fromY
        /\ pl.dir = 0
        /\ <<last.x, last.y>> # <<pl.x, pl.y>>
        /\ \E m \in outbox : m.type = "p" /\ m.id = last.pid /\ m.d = 0 /\ m.to # last.sid
        /\ \A m \in outbox : m.type = "p"

\* C27: a registered player is marked mid-traversal exactly when the movement
\* system holds a pending move for it
C27_MovingIffPending ==
  \A p \in DOMAIN players : players[p].isMoving <=> p \in DOMAIN pendingMoves

\* a tick has just finished one player's move and left the other player's, which
\* is not due yet, pending
C27_Witness ==
  /\ last.op = "tick"
  /\ \E p, q \in DOMAIN players :
       /\ ~players[p].isMoving /\ players[p].lastMoveTime > 0
       /\ now >= players[p].lastMoveTime + players[p].curSpeed
       /\ p \notin DOMAIN pendingMoves
       /\ players[q].isMoving /\ q \in DOMAIN pendingMoves
       /\ now < pendingMoves[q].completeTime

C29_MoveEventuallyFinalized ==
  \A p \in 1 .. MaxPlayers :
    (p \in DOMAIN players /\ players[p].isMoving)
      ~> (\/ p \notin DOMAIN players
          \/ /\ ~players[p].isMoving
             /\ p \notin DOMAIN pendingMoves
             /\ <<players[p].fromX, players[p].fromY>> = <<players[p].x, players[p].y>>)

\* a tick has just finalized a player's second move: after the first was
\* finalized a later move-start was accepted again
C29_Witness ==
  /\ last.op = "tick"
  /\ \E p \in DOMAIN players :
       /\ players[p].inputSequence = 2
       /\ ~players[p].isMoving /\ p \notin DOMAIN pendingMoves
       /\ <<players[p].fromX, players[p].fromY>> = <<players[p].x, players[p].y>>
       /\ now >= players[p].lastMoveTime + players[p].curSpeed
       /\ now < players[p].lastMoveTime + players[p].curSpeed + LiveTickInterval

\* C30: every player of the registry is the current player of exactly one
\* connected client
C30_PlayerHasItsClient ==
  \A p \in DOMAIN players :
    Cardinality({sid \in DOMAIN clients : clients[sid].playerId = p}) = 1

\* C31: the first computeDelta of a tracked observer for an entity returns the
\* whole current state and stores it; removePlayer leaves no snapshot of the
\* observer and initPlayer starts it with none, so after the two every entity
\* is a first observation again
C31_FirstObservationFull ==
  [][/\ (last'.op = "computeDelta" /\ last'.pid \in DOMAIN previousStates
           /\ last'.x \notin DOMAIN previousStates[last'.pid]) =>
          /\ last'.ok /\ Len(last'.items) = 2
          /\ last'.items[2] = last'.items[1]
          /\ previousStates'[last'.pid][last'.x] = last'.items[1]
     /\ last'.op = "deltaRemove" => last'.pid \notin DOMAIN previousStates'
     /\ last'.op = "deltaInit" =>
          /\ last'.pid \in DOMAIN previousStates'
          /\ DOMAIN previousStates'[last'.pid] = {}]_vars

\* the whole state of entity 2 has just been returned to a tracked observer
\* whose store holds no other entity
C31_Witness ==
  /\ last.op = "computeDelta" /\ last.ok /\ Len(last.items) = 2
  /\ last.x = 2
  /\ last.items[2] = last.items[1]
  /\ DOMAIN last.items[1] = {"type", "id", "x", "d"}
  /\ last.pid \in DOMAIN previousStates
  /\ DOMAIN previousStates[last.pid] = {2}
  /\ previousStates[last.pid][2] = last.items[1]

\* C32: a tracked observer that merges every value computeDelta returns for an
\* entity into its copy holds, after each call, the state passed to that call,
\* field for field
C32_ObserverCopyCurrent ==
  [][(last'.op = "computeDelta" /\ last'.pid \in DOMAIN previousStates) =>
       /\ last'.x \in DOMAIN copies'[last'.pid]
       /\ copies'[last'.pid][last'.x] = last'.items[1]]_vars

\* C33: an accepted move-start appends one sample (x, y, time) of the position
\* moved to to the sender's anti-cheat history; a move-start that is rejected or
\* ignored, and a face-only intent, append none
C33_AcceptedMoveRecorded ==
  [][/\ MoveStartStep =>
          LET pid == last'.pid
              a   == players[pid]
              b   == players'[pid]
          IN IF <<b.x, b.y>> # <<a.x, a.y>>
             THEN /\ pid \in DOMAIN playerHistory /\ pid \in DOMAIN playerHistory'
                  /\ playerHistory'[pid].positions =
                       Append(playerHistory[pid].positions,
                              [x |-> b.x, y |-> b.y, time |-> now])
             ELSE playerHistory' = playerHistory
     /\ (last'.op = "m" /\ now' = now) => playerHistory' = playerHistory]_vars

\* C34: a history never holds more than historySize (20) samples; recordMove of a
\* tracked participant appends the sample, evicting the oldest one when the
\* history is full, so that the history is the most recent samples in the order
\* they were recorded; recordMove of an untracked participant changes nothing
C34_HistoryKeepsMostRecent ==
  /\ [](\A p \in DOMAIN playerHistory :
          LET pos == playerHistory[p].positions
          IN /\ Len(pos) <= 20
             /\ \A i \in 1 .. Len(pos) : pos[i].x = pos[Len(pos)].x - (Len(pos) - i)
             /\ \A i \in 1 .. Len(pos) - 1 : pos[i].time <= pos[i + 1].time)
  /\ [][(last'.op = "recordMove" /\ now' = now) =>
          LET p == last'.pid
          IN IF p \in DOMAIN playerHistory
             THEN LET old == playerHistory[p].positions
                      new == playerHistory'[p].positions
                      n   == Len(old)
                  IN /\ Len(new) = IF n < 20 THEN n + 1 ELSE 20
                     /\ new[Len(new)] = [x |-> last'.x, y |-> last'.y, time |-> now]
                     /\ SubSeq(new, 1, Len(new) - 1) =
                          IF n < 20 THEN old ELSE SubSeq(old, 2, 20)
                     /\ \A q \in DOMAIN playerHistory \ {p} :
                          q \in DOMAIN playerHistory' /\ playerHistory'[q] = playerHistory[q]
             ELSE playerHistory' = playerHistory]_vars

\* the twenty-second sample has been recorded into a full history: the two oldest
\* samples are gone
C34_Witness ==
  /\ last.op = "recordMove" /\ last.ok /\ last.x = 22
  /\ last.pid \in DOMAIN playerHistory
  /\ LET pos == playerHistory[last.pid].positions
     IN Len(pos) = 20 /\ pos[1].x = 3 /\ pos[20].x = 22 /\ pos[20].time = now

\* C35: detectTeleport returns true iff the claimed position is at a Manhattan
\* distance of more than 2 from the server's; when it returns true for a tracked
\* participant that participant's violation counter goes up by one and nothing
\* else changes, and when it returns false no history changes
C35_TeleportDetected ==
  [][(last'.op = "detectTeleport" /\ now' = now) =>
       LET p == last'.pid
       IN /\ last'.ok <=> (Abs(last'.x) + Abs(last'.y) > 2)
          /\ IF last'.ok /\ p \in DOMAIN playerHistory
             THEN /\ DOMAIN playerHistory' = DOMAIN playerHistory
                  /\ playerHistory'[p].violations = playerHistory[p].violations + 1
                  /\ playerHistory'[p].positions = playerHistory[p].positions
                  /\ playerHistory'[p].lastMoveTime = playerHistory[p].lastMoveTime
                  /\ \A q \in DOMAIN playerHistory \ {p} :
                       playerHistory'[q] = playerHistory[q]
             ELSE playerHistory' = playerHistory]_vars

\* a claim two tiles east and one tile south of the server's position has been
\* found a teleport, for a participant with a recorded sample
C35_Witness ==
  /\ last.op = "detectTeleport" /\ last.ok /\ last.x = 2 /\ last.y = 1
  /\ last.pid \in DOMAIN playerHistory
  /\ playerHistory[last.pid].violations = 1
  /\ Len(playerHistory[last.pid].positions) = 1

\* C36: a participant's inputSequence starts at 0, goes up by exactly one with each
\* of its accepted moves and is left alone by every other step: a move-start that
\* is rejected, ignored or only turns the player, a face-only intent, a tick, and
\* every step of another participant; so it never goes down
C36_InputSequenceCounts ==
  [][/\ \A pid \in DOMAIN players \cap DOMAIN players' :
          LET a == players[pid]
              b == players'[pid]
          IN /\ b.inputSequence >= a.inputSequence
             /\ IF MoveStartStep /\ last'.pid = pid /\ <<b.x, b.y>> # <<a.x, a.y>>
                THEN b.inputSequence = a.inputSequence + 1
                ELSE b.inputSequence = a.inputSequence
     /\ \A pid \in DOMAIN players' \ DOMAIN players : players'[pid].inputSequence = 0]_vars

\* a participant has made its second accepted move
C36_Witness ==
  /\ last.op = "h" /\ last.pid \in DOMAIN players
  /\ players[last.pid].inputSequence = 2
  /\ players[last.pid].isMoving /\ players[last.pid].lastMoveTime = now

\* C37: after an accepted move the player's effective speed is the larger of 100
\* and its base speed plus the speed modifier of the type of the tile moved to
\* (0 when that type has none), and the pending move of that move completes that
\* many ms after the acceptance; no player's effective speed is ever under 100
C37_EffectiveSpeed ==
  /\ [](\A pid \in DOMAIN players : players[pid].curSpeed >= 100)
  /\ [][MoveStartStep =>
          LET pid == last'.pid
              a   == players[pid]
              b   == players'[pid]
              map == maps["overworld"]
              tileId == map.tiles[b.y * map.width + b.x]
              mod == IF tileId \in DOMAIN map.tileSpeed THEN map.tileSpeed[tileId] ELSE 0
              eff == IF a.speed + mod > 100 THEN a.speed + mod ELSE 100
          IN <<b.x, b.y>> # <<a.x, a.y>> =>
               /\ b.curSpeed = eff
               /\ b.speed = a.speed
               /\ pid \in DOMAIN pendingMoves'
               /\ pendingMoves'[pid].completeTime = now + eff]_vars

\* a move onto a tile whose type has the modifier -700 has been accepted: the
\* effective speed is 100 and the pending move completes 100 ms later
C37_Witness ==
  /\ last.op = "h" /\ last.pid \in DOMAIN players /\ last.pid \in DOMAIN pendingMoves
  /\ LET pl == players[last.pid]
         map == maps["overworld"]
         tileId == map.tiles[pl.y * map.width + pl.x]
     IN /\ pl.isMoving /\ pl.lastMoveTime = now
        /\ tileId = 7 /\ tileId \in DOMAIN map.tileSpeed /\ map.tileSpeed[tileId] = -700
        /\ pl.speed = 750 /\ pl.curSpeed = 100
        /\ pendingMoves[last.pid].completeTime = now + 100

\* C38: getMap returns a map for every id: the one it holds for that id, as it is
\* now, or else a newly generated one, which it holds from then on; no map is
\* ever dropped or generated again; and a move-start of an idle player that is
\* no teleport, is not too early and whose target is walkable and free is
\* accepted, never rejected for want of a map
C38_GetMapLoadsOnce ==
  /\ [][(last'.op = "getMap" /\ now' = now) =>
          /\ last'.ok /\ Len(last'.items) = 1
          /\ LET ret   == last'.items[1]
                 mapId == ret.id
             IN /\ mapId \in DOMAIN maps' /\ maps'[mapId] = ret
                /\ mapId \in DOMAIN maps => maps' = maps
                /\ mapId \notin DOMAIN maps =>
                     /\ ret = loadMap(mapId)
                     /\ DOMAIN maps' = DOMAIN maps \cup {mapId}
                     /\ \A k \in DOMAIN maps : maps'[k] = maps[k]]_vars
  /\ [][/\ DOMAIN maps \subseteq DOMAIN maps'
        /\ ~(last'.op = "getMap" /\ now' = now) => DOMAIN maps' = DOMAIN maps]_vars
  /\ [][MoveStartStep =>
          LET pid == last'.pid
              pl  == players[pid]
              t   == TargetOf(pl, last'.d)
          IN /\ pl.mapId \in DOMAIN maps
             /\ (/\ ~pl.isMoving
                 /\ ClaimedDistance(last', pl) <= 2
                 /\ mapIsWalkable(maps[pl.mapId], t[1], t[2])
                 /\ ~OtherPlayerAt(players, t, pid)
                 /\ ~(pl.lastMoveTime > 0 /\ (now - pl.lastMoveTime) * 100 < pl.curSpeed * 85))
                => <<players'[pid].x, players'[pid].y>> = t]_vars

\* getMap has returned the cave map with the tile written to it after it was
\* generated, while a player is moving on the overworld
C38_Witness ==
  /\ last.op = "getMap" /\ last.ok
  /\ last.items[1].id = "cave"
  /\ "cave" \in DOMAIN maps /\ maps["cave"] = last.items[1]
  /\ maps["cave"] # loadMap("cave")
  /\ mapGetTile(maps["cave"], 1, 1) = 7
  /\ \E pid \in DOMAIN players : players[pid].mapId = "overworld" /\ players[pid].isMoving

\* C39: every player of the registry stands on a tile of its map that is in
\* bounds and that isWalkable reports as walkable, whatever spawns and moves have
\* happened (on the generated map: inside the border of walls)
C39_PlayersOnWalkableTiles ==
  \A pid \in DOMAIN players :
    LET pl == players[pid]
    IN /\ pl.mapId \in DOMAIN maps
       /\ mapInBounds(maps[pl.mapId], pl.x, pl.y)
       /\ mapIsWalkable(maps[pl.mapId], pl.x, pl.y)
       /\ pl.x \in 1 .. MapWidth - 2 /\ pl.y \in 1 .. MapHeight - 2
       /\ maps[pl.mapId].tiles[pl.y * MapWidth + pl.x] # 325

\* a player has moved off its spawn tile and the player that found no free tile
\* has been spawned on the centre tile
C39_Witness ==
  /\ Cardinality(DOMAIN players) = MaxCrowd
  /\ \E p, q \in DOMAIN players :
       /\ p # q
       /\ <<players[p].x, players[p].y>> = <<players[q].x, players[q].y>>
       /\ <<players[p].x, players[p].y>> = <<MapWidth \div 2, MapHeight \div 2>>
  /\ \E p \in DOMAIN players : players[p].inputSequence >= 1

====
